---- MODULE Spec2Model ----
(***************************************************************************)
(* Mealie recipe sync: the sync orchestrator (app/main.py), the import     *)
(* client's outcome taxonomy (app/mealie_client.py), the source factory    *)
(* (app/sources.py) and the state store they drive.  app/state.py and      *)
(* app/crawler.py are not part of the sources at hand; the state store,    *)
(* URLNormalizer and RateLimiter are modelled from their description in    *)
(* the specification.                                                      *)
(***************************************************************************)
EXTENDS Integers, Sequences, FiniteSets, TLC

(* ------------------------------ bounds -------------------------------- *)

\* Number of sync cycles the main loop is followed for.
MaxRuns == 2

\* Largest number of URLs all sources together return in one run.
MaxDiscovered == 4

\* The same where calls may raise.
MaxDiscoveredFault == 2

\* Largest number of calls that raise in one behaviour.
MaxFaults == 2

\* URLs per run where the cycle loop is followed under fairness.
MaxDiscoveredLive == 1

\* URLs per run where the failed attempts of earlier runs are kept.
MaxDiscoveredRetry == 2

\* Values of MAX_NEW_RECIPES_PER_RUN there.
RetryCaps == {1, 2}

\* URLs per run where the requests of the import client are followed.
MaxDiscoveredClient == 2

\* Canonical URLs the sources can yield.
URLS == {"a", "b", "c"}

\* Values of MAX_NEW_RECIPES_PER_RUN the manager is started with.
Caps == {-1, 0, 1, 2}

(* --------------------------- configuration ---------------------------- *)

\* config/sources.yaml: the 'enabled' key is "absent", "true" or "false".
Sources ==
  << [name |-> "feed",  type |-> "rss",         enabled |-> "absent"],
     [name |-> "off",   type |-> "url_list",    enabled |-> "false"],
     [name |-> "odd",   type |-> "sitemap",     enabled |-> "true"],
     [name |-> "list",  type |-> "url_list",    enabled |-> "true"] >>

KnownTypes == {"rss", "rss_suffix", "crawl_index", "rss_or_crawl", "url_list"}

\* What the downstream answers to GET /api/app/about.
ConnOutcomes == {"ok", "timeout", "connection_error", "http_error"}

\* How one POST /api/recipes/create-url ends for import_recipe_from_url:
\* a 200 with a JSON object, another HTTP status, or an exception of
\* requests (Timeout, ConnectionError, RetryError) or of response.json().
Responses ==
  {"200", "409", "400", "timeout", "connection_error", "retry_error",
   "bad_body"}

\* mealie_client.py:45, Retry(total=3): the number of retries urllib3 allows
\* after the first request.
RetryTotal == 3

\* mealie_client.py:47, status_forcelist.
StatusForcelist == {"429", "500", "502", "503", "504"}

\* What one HTTP request of the session meets: a status (200 with a JSON
\* object, with the JSON object {} or with another body, 400, 409, 429, 503)
\* or a transport error.
Replies ==
  {"200", "200_empty", "200_bad_body", "400", "409", "429", "503",
   "connect_timeout", "read_timeout", "connection_error"}

None == "None"

\* The JSON object without fields, {}.
EmptyRecord == "{}"

VARIABLES
  discover_bound,       \* bound on the URLs discovered per run (fixed by Init)
  watched,              \* URLs whose failed AttemptRecords are kept over the
                        \* runs (fixed by Init; the program never reads them)
  dry_run,              \* DRY_RUN
  max_recipes_per_run,  \* MAX_NEW_RECIPES_PER_RUN
  pc,                   \* position of the single flow of control
  cycle,                \* iterations of main()'s loop started so far
  run_id,               \* sync(): run_id
  src,                  \* discover_urls(): index of the source being processed
  all_urls,             \* discover_urls(): all_urls
  deduplicated,         \* sync(): main.py:164 was executed in this run
  unique_urls,          \* sync(): unique_urls
  new_urls,             \* sync(): new_urls
  urls_to_import,       \* sync(): urls_to_import
  i,                    \* sync(): position in urls_to_import
  imported_count,       \* sync(): imported_count
  failed_count,         \* sync(): failed_count
  \* ---- state store (state.db)
  import_records,       \* ImportRecords: url -> number of records for it
  sync_run,             \* the SyncRun row of run_id
  open_left,            \* rows of earlier runs that were never finalized
  \* ---- observations of the current run (reset when a run is opened)
  imported_at_start,    \* URLs with an ImportRecord when the run was opened
  conn_outcome,         \* what the connection test of this run met
  source_log,           \* sources asked for URLs, in order
  seen_log,             \* SeenRecords written: <<source, url>> for each
                        \* mark_url_seen that took effect, in order
  yielded,              \* number of URLs returned by the sources whose
                        \* processing ended without an exception
  calls,                \* URLs passed to import_recipe_from_url, in order
  conflicts,            \* URLs the downstream answered with 409
  returned,             \* URLs for which the client returned a record
  import_log,           \* URLs for which record_import took effect, in order
  attempt_log,          \* <<url, success>> appended by record_attempt
  finalizations,        \* complete_sync_run calls that took effect for run_id
  sleeps,               \* time.sleep(2) calls of the import loop
  \* ---- the import client's session (moves under SpecClient only)
  requests_sent,        \* HTTP requests sent by the call in progress
  answer,               \* how the last finished call of the run ended
  \* ---- observations over all runs
  failed_before,        \* watched URLs with an AttemptRecord of success =
                        \* false written by an earlier run
  faults,               \* calls that raised so far
  \* ---- one call of a source's get_recipe_urls (sources.py)
  source_cfg,           \* the source's config (fixed by Init)
  helper_fails,         \* URLNormalizer calls raise (fixed by Init)
  source_pc,            \* position in get_recipe_urls
  candidate,            \* RSSOrCrawlSource: index of the next feed candidate
  fetched,              \* what feedparser.parse met, one entry per call
  crawled,              \* crawler.crawl_index_page calls made
  source_result,        \* the list get_recipe_urls returned
  \* ---- URLNormalizer applied to one URL
  url_in,               \* the URL (fixed by Init)
  allow_in,             \* the allow-list (fixed by Init)
  url_out,              \* results of normalize, of normalize of that, ...
  match_out,            \* result of matches_domain
  \* ---- RateLimiter
  interval,             \* RATE_LIMIT_SECONDS_PER_DOMAIN (fixed by Init)
  now,                  \* the clock
  last_request,         \* RateLimiterState: domain -> last grant
  grant_log             \* <<domain, time of call, time of grant>> per acquire

vars ==
  << discover_bound, watched, dry_run, max_recipes_per_run, pc, cycle, run_id, src,
     all_urls, deduplicated, unique_urls, new_urls, urls_to_import, i,
     imported_count, failed_count, import_records, sync_run, open_left,
     imported_at_start, conn_outcome, source_log, seen_log, yielded, calls,
     conflicts,
     returned,
     import_log, attempt_log, finalizations, sleeps, requests_sent, answer,
     failed_before, faults, source_cfg, helper_fails, source_pc, candidate,
     fetched, crawled, source_result, url_in, allow_in, url_out, match_out,
     interval, now, last_request, grant_log >>

\* The variables of the sync orchestrator and of its observations.
syncing ==
  << discover_bound, watched, dry_run, max_recipes_per_run, pc, cycle, run_id, src,
     all_urls, deduplicated, unique_urls, new_urls, urls_to_import, i,
     imported_count, failed_count, import_records, sync_run, open_left,
     imported_at_start, conn_outcome, source_log, seen_log, yielded, calls,
     conflicts,
     returned,
     import_log, attempt_log, finalizations, sleeps, requests_sent, answer,
     failed_before, faults >>
sourcing  == << source_cfg, helper_fails, source_pc, candidate, fetched,
                crawled, source_result >>
urlcheck  == << url_in, allow_in, url_out, match_out >>
limiter   == << interval, now, last_request, grant_log >>
\* The components followed on their own, which a sync step leaves alone.
apart     == << sourcing, urlcheck, limiter >>

config    == << discover_bound, watched, dry_run, max_recipes_per_run >>
session   == << requests_sent, answer >>
locals    == << src, all_urls, deduplicated, unique_urls, new_urls,
                urls_to_import, i, imported_count, failed_count >>
discovery == << conn_outcome, source_log, seen_log, yielded >>
importing == << calls, conflicts, returned, import_log, attempt_log, sleeps,
                import_records >>

(* ------------------------------ helpers ------------------------------- *)

Range(s) == {s[k] : k \in 1..Len(s)}

Min(x, y) == IF x <= y THEN x ELSE y

Max(x, y) == IF x >= y THEN x ELSE y

\* All sequences over S of length 0..n.
SeqsUpTo(S, n) == UNION {[1..k -> S] : k \in 0..n}

\* Slice without the cap.
SliceAll(s, n) == s

\* python: s[:n]
Slice(s, n) ==
  SubSeq(s, 1, IF n < 0 THEN Max(Len(s) + n, 0) ELSE Min(n, Len(s)))

\* Dedup without deduplication.
DedupOff(s) == s

\* Dedup keeping the last occurrence of each URL instead of the first.
RECURSIVE DedupLast(_)
DedupLast(s) ==
  IF s = <<>> THEN <<>>
  ELSE IF Head(s) \in Range(Tail(s)) THEN DedupLast(Tail(s))
       ELSE <<Head(s)>> \o DedupLast(Tail(s))

\* python: list(dict.fromkeys(s))
RECURSIVE Dedup(_)
Dedup(s) ==
  IF s = <<>> THEN <<>>
  ELSE LET front == Dedup(SubSeq(s, 1, Len(s) - 1))
           last  == s[Len(s)]
       IN  IF last \in Range(front) THEN front ELSE Append(front, last)

\* FilterNew dropping the URLs of failed attempts as well.
FilterFailed(unique, imported) ==
  SelectSeq(unique, LAMBDA u : u \notin imported \cup failed_before)

\* FilterNew without the filter.
FilterOff(unique, imported) == unique

\* python: [url for url in unique_urls if url not in imported_urls]
FilterNew(unique, imported) ==
  SelectSeq(unique, LAMBDA u : u \notin imported)

(* ---------------------------- state store ----------------------------- *)

NoRun == [status |-> "none", discovered |-> 0, imported |-> 0, failed |-> 0,
          reason |-> None]

\* start_sync_run(): a row with a start time only.
OpenRun == [status |-> "open", discovered |-> 0, imported |-> 0, failed |-> 0,
            reason |-> None]

\* complete_sync_run(run_id, discovered, imported, failed, failure_reason)
complete_sync_run(discovered, imported, failed, failure_reason) ==
  [status |-> "final", discovered |-> discovered, imported |-> imported,
   failed |-> failed, reason |-> failure_reason]

\* get_imported_urls()
get_imported_urls == {u \in URLS : import_records[u] > 0}

\* record_import(url, recipe_name, source_name)
record_import(records, url, recipe_name) ==
  [records EXCEPT ![url] = @ + 1]

(* --------------------------- import client ---------------------------- *)

\* test_connection without raise_for_status().
test_connection_lax(outcome) == outcome \in {"ok", "http_error"}

\* MealieClient.test_connection(): True only when the probe succeeded.
test_connection(outcome) == outcome = "ok"

\* import_recipe_from_url taking every 4xx status for "already exists".
import_recipe_4xx_exists(response) ==
  CASE response = "200"          -> "Recipe"
    [] response \in {"400", "409"} -> "Existing Recipe"
    [] OTHER                     -> None

\* import_recipe_from_url without the 409 branch.
import_recipe_no_conflict(response) ==
  IF response = "200" THEN "Recipe" ELSE None

\* MealieClient.import_recipe_from_url() outside dry-run: the record it
\* returns for a downstream answer, or None.
import_recipe_from_url(response) ==
  CASE response = "200"       -> "Recipe"
    [] response = "200_empty" -> EmptyRecord
    [] response = "409"       -> "Existing Recipe"
    [] OTHER                  -> None

\* main.py:199, 'if recipe:': None and a dict without keys are false.
Truthy(recipe) == recipe \notin {None, EmptyRecord}

(* ----------------------------- sources -------------------------------- *)

\* Enabled with a missing flag read as false.
EnabledStrict(cfg) == cfg.enabled = "true"

\* discover_urls(): source_config.get('enabled', True)
Enabled(cfg) == cfg.enabled # "false"

\* create_source(): None for an unknown type tag.
create_source(cfg) == IF cfg.type \in KnownTypes THEN cfg.type ELSE None

(* ------------------------------- Init --------------------------------- *)

\* No URL: the empty string.
NoUrl == [host |-> <<>>, query |-> <<>>, fragment |-> ""]

\* No source under way.
NoSource ==
  [type |-> None, address |-> FALSE, allow_domains |-> <<>>,
   max_entries |-> 0, rss_url_candidates |-> <<>>, urls |-> <<>>]

\* The components while the orchestrator is followed: nothing is called on
\* its own.
SourceParked ==
  /\ source_cfg = NoSource
  /\ helper_fails = FALSE
  /\ source_pc = "idle"
  /\ candidate = 1
  /\ fetched = <<>>
  /\ crawled = 0
  /\ source_result = <<>>

UrlParked ==
  /\ url_in = NoUrl
  /\ allow_in = <<>>
  /\ url_out = <<>>
  /\ match_out = <<>>

LimiterParked ==
  /\ interval = 0
  /\ now = 0
  /\ last_request = <<>>
  /\ grant_log = <<>>

\* The orchestrator before its first cycle, an empty store.
SyncStart ==
  /\ pc = "idle"
  /\ cycle = 0
  /\ run_id = 0
  /\ src = 1
  /\ all_urls = <<>>
  /\ deduplicated = FALSE
  /\ unique_urls = <<>>
  /\ new_urls = <<>>
  /\ conn_outcome = None
  /\ urls_to_import = <<>>
  /\ i = 1
  /\ imported_count = 0
  /\ failed_count = 0
  /\ import_records = [u \in URLS |-> 0]
  /\ sync_run = NoRun
  /\ open_left = 0
  /\ imported_at_start = {}
  /\ source_log = <<>>
  /\ seen_log = <<>>
  /\ yielded = 0
  /\ calls = <<>>
  /\ conflicts = {}
  /\ returned = {}
  /\ import_log = <<>>
  /\ attempt_log = <<>>
  /\ finalizations = 0
  /\ sleeps = 0
  /\ requests_sent = 0
  /\ answer = None
  /\ failed_before = {}
  /\ faults = 0

Start ==
  /\ SourceParked
  /\ UrlParked
  /\ LimiterParked
  /\ SyncStart

\* The orchestrator while a component is followed on its own: never started.
SyncParked ==
  /\ discover_bound = 0
  /\ watched = {}
  /\ dry_run = FALSE
  /\ max_recipes_per_run = 0
  /\ SyncStart

\* The manager as constructed (main.py:29-78), no run yet, an empty store.
Init ==
  /\ discover_bound = MaxDiscovered
  /\ watched = {}
  /\ dry_run \in BOOLEAN
  /\ max_recipes_per_run \in Caps
  /\ Start

\* The same with the default cap.
InitFault ==
  /\ discover_bound = MaxDiscoveredFault
  /\ watched = {}
  /\ dry_run \in BOOLEAN
  /\ max_recipes_per_run = 2
  /\ Start

\* The same with one URL per run.
InitLive ==
  /\ discover_bound = MaxDiscoveredLive
  /\ watched = {}
  /\ dry_run \in BOOLEAN
  /\ max_recipes_per_run = 2
  /\ Start

\* Outside dry-run with the default-sized cap, for the client's requests.
InitClient ==
  /\ discover_bound = MaxDiscoveredClient
  /\ watched = {}
  /\ dry_run = FALSE
  /\ max_recipes_per_run = 2
  /\ Start

\* A positive cap, the failed attempts of every URL kept.
InitRetry ==
  /\ discover_bound = MaxDiscoveredRetry
  /\ watched = URLS
  /\ dry_run \in BOOLEAN
  /\ max_recipes_per_run \in RetryCaps
  /\ Start

(* ------------------------- main(): the cycle -------------------------- *)

\* main.py:261-270 and 149: main() calls sync(), at startup or after the
\* sleep that follows the previous cycle, and sync() opens the run.
sync_start ==
  /\ pc \in {"idle", "sleep"}
  /\ cycle < MaxRuns
  /\ cycle' = cycle + 1
  /\ run_id' = run_id + 1
  /\ open_left' = open_left + (IF sync_run.status = "open" THEN 1 ELSE 0)
  /\ sync_run' = OpenRun
  /\ finalizations' = 0
  /\ imported_at_start' = get_imported_urls
  /\ failed_before' = failed_before \cup
       {u \in watched : <<u, FALSE>> \in Range(attempt_log)}
  /\ src' = 1
  /\ all_urls' = <<>>
  /\ deduplicated' = FALSE
  /\ unique_urls' = <<>>
  /\ new_urls' = <<>>
  /\ conn_outcome' = None
  /\ urls_to_import' = <<>>
  /\ i' = 1
  /\ imported_count' = 0
  /\ failed_count' = 0
  /\ source_log' = <<>>
  /\ seen_log' = <<>>
  /\ yielded' = 0
  /\ calls' = <<>>
  /\ conflicts' = {}
  /\ returned' = {}
  /\ import_log' = <<>>
  /\ attempt_log' = <<>>
  /\ sleeps' = 0
  /\ pc' = "test_connection"
  /\ answer' = None
  /\ UNCHANGED << apart, config, requests_sent, faults, import_records >>

(* ---------------------- sync(): connectivity gate --------------------- *)

\* main.py:153, the connection test succeeded.
sync_connected ==
  /\ pc = "test_connection"
  /\ \E outcome \in ConnOutcomes :
       /\ test_connection(outcome)
       /\ conn_outcome' = outcome
  /\ pc' = "discover"
  /\ UNCHANGED << apart, config, session, failed_before, faults, cycle, run_id, locals, sync_run, open_left,
                  imported_at_start, source_log, seen_log, yielded, importing, finalizations >>

\* main.py:153-156, the connection test failed: finalize and return.
sync_not_connected ==
  /\ pc = "test_connection"
  /\ \E outcome \in ConnOutcomes :
       /\ ~test_connection(outcome)
       /\ conn_outcome' = outcome
  /\ sync_run' = complete_sync_run(0, 0, 0, "Failed to connect to Mealie")
  /\ finalizations' = finalizations + 1
  /\ pc' = "sleep"
  /\ UNCHANGED << apart, config, session, failed_before, faults, cycle, run_id, locals, open_left,
                  imported_at_start, source_log, seen_log, yielded, importing >>

(* --------------------------- discover_urls() -------------------------- *)

\* Marked leaving the marking loop after the first URL.
MarkedFirst(source, urls) ==
  [k \in 1..Min(1, Len(urls)) |-> <<source, urls[k]>>]

\* main.py:130-132, mark_url_seen for each URL the source returned.
Marked(source, urls) == [k \in 1..Len(urls) |-> <<source, urls[k]>>]

\* Extend putting the new URLs in front.
ExtendFront(all, urls) == urls \o all

\* python: all_urls.extend(urls)
Extend(all, urls) == all \o urls

\* main.py:115-123, a disabled source or one of unknown type is skipped.
discover_skip ==
  /\ pc = "discover"
  /\ src <= Len(Sources)
  /\ \/ ~Enabled(Sources[src])
     \/ create_source(Sources[src]) = None
  /\ src' = src + 1
  /\ UNCHANGED << apart, config, session, failed_before, faults, pc, cycle, run_id, all_urls, deduplicated, unique_urls, new_urls,
                  urls_to_import, i, imported_count, failed_count, sync_run,
                  open_left, imported_at_start, discovery, importing,
                  finalizations >>

\* main.py:125-134, the source returns urls; each is marked seen, then all
\* are added to all_urls.
discover_source ==
  /\ pc = "discover"
  /\ src <= Len(Sources)
  /\ Enabled(Sources[src])
  /\ create_source(Sources[src]) # None
  /\ \E urls \in SeqsUpTo(URLS, discover_bound - Len(all_urls)) :
       /\ source_log' = Append(source_log, src)
       /\ seen_log' = seen_log \o Marked(src, urls)
       /\ yielded' = yielded + Len(urls)
       /\ all_urls' = Extend(all_urls, urls)
  /\ src' = src + 1
  /\ UNCHANGED << apart, config, session, failed_before, conn_outcome, faults, pc, cycle, run_id, deduplicated, unique_urls, new_urls, urls_to_import, i,
                  imported_count, failed_count, sync_run, open_left,
                  imported_at_start, importing, finalizations >>

(* ------------------ sync(): deduplicate, filter, cap ------------------ *)

\* main.py:164-169
NewUrls == FilterNew(Dedup(all_urls), get_imported_urls)

\* sync_no_new finalizing with a discovered count of zero.
sync_no_new_zero ==
  /\ pc = "discover"
  /\ src > Len(Sources)
  /\ NewUrls = <<>>
  /\ deduplicated' = TRUE
  /\ unique_urls' = Dedup(all_urls)
  /\ new_urls' = NewUrls
  /\ sync_run' = complete_sync_run(0, 0, 0, None)
  /\ finalizations' = finalizations + 1
  /\ pc' = "sleep"
  /\ UNCHANGED << apart, config, session, failed_before, faults, cycle, run_id, src, all_urls, urls_to_import, i,
                  imported_count, failed_count, open_left, imported_at_start,
                  discovery, importing >>

\* main.py:172-175, nothing new: finalize and return.
sync_no_new ==
  /\ pc = "discover"
  /\ src > Len(Sources)
  /\ NewUrls = <<>>
  /\ deduplicated' = TRUE
  /\ unique_urls' = Dedup(all_urls)
  /\ new_urls' = NewUrls
  /\ sync_run' = complete_sync_run(Len(all_urls), 0, 0, None)
  /\ finalizations' = finalizations + 1
  /\ pc' = "sleep"
  /\ UNCHANGED << apart, config, session, failed_before, faults, cycle, run_id, src, all_urls, urls_to_import, i,
                  imported_count, failed_count, open_left, imported_at_start,
                  discovery, importing >>

\* sync_dry_run without the early return: the import loop is entered.
sync_dry_run_imports ==
  /\ pc = "discover"
  /\ src > Len(Sources)
  /\ NewUrls # <<>>
  /\ dry_run
  /\ deduplicated' = TRUE
  /\ unique_urls' = Dedup(all_urls)
  /\ new_urls' = NewUrls
  /\ urls_to_import' = Slice(NewUrls, max_recipes_per_run)
  /\ i' = 1
  /\ imported_count' = 0
  /\ failed_count' = 0
  /\ pc' = "import"
  /\ UNCHANGED << apart, config, session, failed_before, faults, cycle, run_id, src, all_urls, sync_run,
                  open_left, imported_at_start, discovery, importing,
                  finalizations >>

\* main.py:178-187, dry run: log the list, finalize and return.
sync_dry_run ==
  /\ pc = "discover"
  /\ src > Len(Sources)
  /\ NewUrls # <<>>
  /\ dry_run
  /\ deduplicated' = TRUE
  /\ unique_urls' = Dedup(all_urls)
  /\ new_urls' = NewUrls
  /\ urls_to_import' = Slice(NewUrls, max_recipes_per_run)
  /\ sync_run' = complete_sync_run(Len(all_urls), 0, 0, None)
  /\ finalizations' = finalizations + 1
  /\ pc' = "sleep"
  /\ UNCHANGED << apart, config, session, failed_before, faults, cycle, run_id, src, all_urls, i, imported_count,
                  failed_count, open_left, imported_at_start, discovery,
                  importing >>

\* main.py:178-191, enter the import loop.
sync_begin_import ==
  /\ pc = "discover"
  /\ src > Len(Sources)
  /\ NewUrls # <<>>
  /\ ~dry_run
  /\ deduplicated' = TRUE
  /\ unique_urls' = Dedup(all_urls)
  /\ new_urls' = NewUrls
  /\ urls_to_import' = Slice(NewUrls, max_recipes_per_run)
  /\ i' = 1
  /\ imported_count' = 0
  /\ failed_count' = 0
  /\ pc' = "import"
  /\ UNCHANGED << apart, config, session, failed_before, faults, cycle, run_id, src, all_urls, sync_run, open_left,
                  imported_at_start, discovery, importing, finalizations >>

(* ------------------------ sync(): import loop ------------------------- *)

\* main.py:197-206 and 214, the client returned a record.
sync_import_success ==
  /\ pc = "import"
  /\ i <= Len(urls_to_import)
  /\ \E response \in Responses :
       LET url    == urls_to_import[i]
           recipe == import_recipe_from_url(response)
       IN  /\ Truthy(recipe)
           /\ calls' = Append(calls, url)
           /\ conflicts' = conflicts \cup (IF response = "409" THEN {url} ELSE {})
           /\ returned' = returned \cup
                (IF import_recipe_from_url(response) # None THEN {url} ELSE {})
           /\ import_records' = record_import(import_records, url, recipe)
           /\ import_log' = Append(import_log, url)
           /\ attempt_log' = Append(attempt_log, <<url, TRUE>>)
  /\ imported_count' = imported_count + 1
  /\ sleeps' = sleeps + 1
  /\ i' = i + 1
  /\ UNCHANGED << apart, config, session, failed_before, faults, pc, cycle, run_id, src, all_urls, deduplicated, unique_urls, new_urls,
                  urls_to_import, failed_count, sync_run, open_left,
                  imported_at_start, discovery, finalizations >>

\* sync_import_failure with the branches of main.py:199 confused: the
\* import is recorded although the client returned no record.
sync_import_failure_records ==
  /\ pc = "import"
  /\ i <= Len(urls_to_import)
  /\ \E response \in Responses :
       LET url    == urls_to_import[i]
           recipe == import_recipe_from_url(response)
       IN  /\ ~Truthy(recipe)
           /\ calls' = Append(calls, url)
           /\ conflicts' = conflicts \cup (IF response = "409" THEN {url} ELSE {})
           /\ returned' = returned
           /\ import_records' = record_import(import_records, url, "Unknown")
           /\ import_log' = Append(import_log, url)
           /\ attempt_log' = Append(attempt_log, <<url, TRUE>>)
  /\ imported_count' = imported_count + 1
  /\ sleeps' = sleeps + 1
  /\ i' = i + 1
  /\ UNCHANGED << apart, config, session, failed_before, faults, pc, cycle, run_id, src,
                  all_urls, deduplicated, unique_urls, new_urls,
                  urls_to_import, failed_count, sync_run, open_left,
                  imported_at_start, discovery, finalizations >>

\* main.py:197-199 and 207-214, the client returned no record.
sync_import_failure ==
  /\ pc = "import"
  /\ i <= Len(urls_to_import)
  /\ \E response \in Responses :
       LET url    == urls_to_import[i]
           recipe == import_recipe_from_url(response)
       IN  /\ ~Truthy(recipe)
           /\ calls' = Append(calls, url)
           /\ conflicts' = conflicts \cup (IF response = "409" THEN {url} ELSE {})
           /\ returned' = returned \cup
                (IF import_recipe_from_url(response) # None THEN {url} ELSE {})
           /\ attempt_log' = Append(attempt_log, <<url, FALSE>>)
  /\ failed_count' = failed_count + 1
  /\ sleeps' = sleeps + 1
  /\ i' = i + 1
  /\ UNCHANGED << apart, config, session, failed_before, faults, pc, cycle, run_id, src, all_urls, deduplicated, unique_urls, new_urls,
                  urls_to_import, imported_count, sync_run, open_left,
                  imported_at_start, discovery, import_log,
                  import_records, finalizations >>

\* sync_complete recording the number of distinct URLs as discovered.
sync_complete_unique ==
  /\ pc = "import"
  /\ i > Len(urls_to_import)
  /\ sync_run' = complete_sync_run(Len(unique_urls), imported_count,
                                   failed_count, None)
  /\ finalizations' = finalizations + 1
  /\ pc' = "stats"
  /\ UNCHANGED << apart, config, session, failed_before, faults, cycle, run_id, locals, open_left,
                  imported_at_start, discovery, importing >>

\* main.py:223-224, the loop is over: finalize the run.
sync_complete ==
  /\ pc = "import"
  /\ i > Len(urls_to_import)
  /\ sync_run' = complete_sync_run(Len(all_urls), imported_count,
                                   failed_count, None)
  /\ finalizations' = finalizations + 1
  /\ pc' = "stats"
  /\ UNCHANGED << apart, config, session, failed_before, faults, cycle, run_id, locals, open_left,
                  imported_at_start, discovery, importing >>

\* main.py:227-236, the summary with get_stats(); sync() returns.
sync_stats ==
  /\ pc = "stats"
  /\ pc' = "sleep"
  /\ UNCHANGED << apart, config, session, failed_before, faults, cycle, run_id, locals, sync_run, open_left,
                  imported_at_start, discovery, importing, finalizations >>

(* -------------------------- specifications ---------------------------- *)

\* The state store and the sources honour their contracts: no call raises.
Next ==
  \/ sync_start
  \/ sync_connected
  \/ sync_not_connected
  \/ discover_skip
  \/ discover_source
  \/ sync_no_new
  \/ sync_dry_run
  \/ sync_begin_import
  \/ sync_import_success
  \/ sync_import_failure
  \/ sync_complete
  \/ sync_stats

Spec == Init /\ [][Next]_vars

\* The same steps, the failed attempts of earlier runs kept.
SpecRetry == InitRetry /\ [][Next]_vars

(* ------------- the import loop, request by request -------------------- *)
(* import_recipe_from_url() posts through a session whose adapter retries  *)
(* (mealie_client.py:43-52, 95-100): urllib3 sends the request again after *)
(* a status of the forcelist or a transport error while retries are left.  *)

\* urllib3 Retry: replies that use up a retry (POST is an allowed method).
Retryable(reply) ==
  reply \in StatusForcelist
             \cup {"connect_timeout", "read_timeout", "connection_error"}

\* How session.post, raise_for_status and response.json() end for the last
\* reply: with the retries used up requests raises RetryError after a status
\* of the forcelist, ConnectTimeout after connect timeouts and
\* ConnectionError after read timeouts and connection errors.
Outcome(reply) ==
  CASE reply = "200_bad_body"    -> "bad_body"
    [] reply \in StatusForcelist -> "retry_error"
    [] reply = "connect_timeout" -> "timeout"
    [] reply \in {"read_timeout", "connection_error"} -> "connection_error"
    [] OTHER                     -> reply

\* mealie_client.py:95-99, one HTTP request of the call for
\* urls_to_import[i]: the first one or a retry.
session_request ==
  /\ pc = "import"
  /\ i <= Len(urls_to_import)
  /\ requests_sent' = requests_sent + 1
  /\ calls' = IF requests_sent = 0 THEN Append(calls, urls_to_import[i])
              ELSE calls
  /\ \E reply \in Replies :
       IF Retryable(reply) /\ requests_sent < RetryTotal
       THEN pc' = pc /\ answer' = answer
       ELSE pc' = "import_return" /\ answer' = Outcome(reply)
  /\ UNCHANGED << apart, config, failed_before, faults, cycle, run_id, locals,
                  sync_run, open_left, imported_at_start, discovery,
                  conflicts, returned, import_log, attempt_log, sleeps,
                  import_records, finalizations >>

\* main.py:197-206 and 214, the call returned a record.
client_returns_record ==
  /\ pc = "import_return"
  /\ LET url    == urls_to_import[i]
         recipe == import_recipe_from_url(answer)
     IN  /\ Truthy(recipe)
         /\ conflicts' = conflicts \cup (IF answer = "409" THEN {url} ELSE {})
         /\ returned' = returned \cup {url}
         /\ import_records' = record_import(import_records, url, recipe)
         /\ import_log' = Append(import_log, url)
         /\ attempt_log' = Append(attempt_log, <<url, TRUE>>)
  /\ imported_count' = imported_count + 1
  /\ sleeps' = sleeps + 1
  /\ i' = i + 1
  /\ requests_sent' = 0
  /\ pc' = "import"
  /\ UNCHANGED << apart, config, answer, failed_before, faults, cycle, run_id, src,
                  all_urls, deduplicated, unique_urls, new_urls,
                  urls_to_import, failed_count, sync_run, open_left,
                  imported_at_start, discovery, calls, finalizations >>

\* main.py:197-199 and 207-214, the call returned None or a record that is
\* false for 'if recipe:'.
client_returns_none ==
  /\ pc = "import_return"
  /\ LET url    == urls_to_import[i]
         recipe == import_recipe_from_url(answer)
     IN  /\ ~Truthy(recipe)
         /\ conflicts' = conflicts \cup (IF answer = "409" THEN {url} ELSE {})
         /\ returned' = returned \cup (IF recipe # None THEN {url} ELSE {})
         /\ attempt_log' = Append(attempt_log, <<url, FALSE>>)
  /\ failed_count' = failed_count + 1
  /\ sleeps' = sleeps + 1
  /\ i' = i + 1
  /\ requests_sent' = 0
  /\ pc' = "import"
  /\ UNCHANGED << apart, config, answer, failed_before, faults, cycle, run_id, src,
                  all_urls, deduplicated, unique_urls, new_urls,
                  urls_to_import, imported_count, sync_run, open_left,
                  imported_at_start, discovery, calls, import_log,
                  import_records, finalizations >>

\* The steps of Spec outside dry-run, each import call request by request.
NextClient ==
  \/ sync_start
  \/ sync_connected
  \/ sync_not_connected
  \/ discover_skip
  \/ discover_source
  \/ sync_no_new
  \/ sync_begin_import
  \/ session_request
  \/ client_returns_record
  \/ client_returns_none
  \/ sync_complete
  \/ sync_stats

SpecClient == InitClient /\ [][NextClient]_vars

(* ------------- the same steps when a state-store call raises --------- *)
(* sync() wraps its body in try/except (main.py:151, 238) and each import  *)
(* in a second one (main.py:196, 216); discover_urls() wraps each source   *)
(* (main.py:125, 136).  A call that raises leaves the store unchanged.     *)

\* str(e) of the exception that reached main.py:238.
ExceptionMessage == "exception"

\* main.py:149, start_sync_run() raises: outside the try, so the exception
\* leaves sync() and main() logs it (main.py:264-265).
sync_start_raises ==
  /\ pc \in {"idle", "sleep"}
  /\ faults < MaxFaults
  /\ faults' = faults + 1
  /\ cycle < MaxRuns
  /\ cycle' = cycle + 1
  /\ pc' = "sleep"
  /\ UNCHANGED << apart, config, session, failed_before, run_id, locals, sync_run, open_left,
                  imported_at_start, discovery, importing, finalizations >>

\* main.py:155, complete_sync_run() raises after a failed connection test.
sync_not_connected_raises ==
  /\ pc = "test_connection"
  /\ faults < MaxFaults
  /\ faults' = faults + 1
  /\ \E outcome \in ConnOutcomes :
       /\ ~test_connection(outcome)
       /\ conn_outcome' = outcome
  /\ pc' = "fatal"
  /\ UNCHANGED << apart, config, session, failed_before, cycle, run_id, locals, sync_run, open_left,
                  imported_at_start, source_log, seen_log, yielded, importing, finalizations >>

\* main.py:127 and 136-138, get_recipe_urls() raises.
discover_source_raises ==
  /\ pc = "discover"
  /\ faults < MaxFaults
  /\ faults' = faults + 1
  /\ src <= Len(Sources)
  /\ Enabled(Sources[src])
  /\ create_source(Sources[src]) # None
  /\ source_log' = Append(source_log, src)
  /\ src' = src + 1
  /\ UNCHANGED << apart, config, session, failed_before, conn_outcome, pc, cycle, run_id, all_urls, deduplicated, unique_urls, new_urls,
                  urls_to_import, i, imported_count, failed_count, sync_run,
                  open_left, imported_at_start, seen_log, yielded,
                  importing, finalizations >>

\* discover_mark_raises with all_urls extended inside the marking loop: the
\* URLs marked before the exception stay in the combined list.
discover_mark_raises_keeps ==
  /\ pc = "discover"
  /\ faults < MaxFaults
  /\ faults' = faults + 1
  /\ src <= Len(Sources)
  /\ Enabled(Sources[src])
  /\ create_source(Sources[src]) # None
  /\ \E urls \in SeqsUpTo(URLS, discover_bound - Len(all_urls)) :
       \E k \in 1..Len(urls) :
         /\ seen_log' = seen_log \o Marked(src, SubSeq(urls, 1, k - 1))
         /\ all_urls' = Extend(all_urls, SubSeq(urls, 1, k - 1))
  /\ source_log' = Append(source_log, src)
  /\ src' = src + 1
  /\ UNCHANGED << apart, config, session, failed_before, conn_outcome, pc, cycle, run_id,
                  yielded, deduplicated, unique_urls, new_urls, urls_to_import, i,
                  imported_count, failed_count, sync_run, open_left,
                  imported_at_start, importing, finalizations >>

\* main.py:130-132 and 136-138, mark_url_seen() raises for the k-th URL the
\* source returned: the URLs before it are marked, none is added to all_urls.
discover_mark_raises ==
  /\ pc = "discover"
  /\ faults < MaxFaults
  /\ faults' = faults + 1
  /\ src <= Len(Sources)
  /\ Enabled(Sources[src])
  /\ create_source(Sources[src]) # None
  /\ \E urls \in SeqsUpTo(URLS, discover_bound - Len(all_urls)) :
       \E k \in 1..Len(urls) :
         /\ seen_log' = seen_log \o Marked(src, SubSeq(urls, 1, k - 1))
  /\ source_log' = Append(source_log, src)
  /\ src' = src + 1
  /\ UNCHANGED << apart, config, session, failed_before, conn_outcome, pc, cycle, run_id, all_urls, deduplicated, unique_urls, new_urls,
                  urls_to_import, i, imported_count, failed_count, sync_run,
                  open_left, imported_at_start, yielded, importing,
                  finalizations >>

\* main.py:168, get_imported_urls() raises.
sync_filter_raises ==
  /\ pc = "discover"
  /\ faults < MaxFaults
  /\ faults' = faults + 1
  /\ src > Len(Sources)
  /\ deduplicated' = TRUE
  /\ unique_urls' = Dedup(all_urls)
  /\ pc' = "fatal"
  /\ UNCHANGED << apart, config, session, failed_before, cycle, run_id, src, all_urls, new_urls,
                  urls_to_import, i, imported_count, failed_count, sync_run,
                  open_left, imported_at_start, discovery, importing,
                  finalizations >>

\* main.py:174 or 186, complete_sync_run() raises on an early return.
sync_early_complete_raises ==
  /\ pc = "discover"
  /\ faults < MaxFaults
  /\ faults' = faults + 1
  /\ src > Len(Sources)
  /\ NewUrls = <<>> \/ dry_run
  /\ deduplicated' = TRUE
  /\ unique_urls' = Dedup(all_urls)
  /\ new_urls' = NewUrls
  /\ urls_to_import' =
       IF NewUrls = <<>> THEN urls_to_import
       ELSE Slice(NewUrls, max_recipes_per_run)
  /\ pc' = "fatal"
  /\ UNCHANGED << apart, config, session, failed_before, cycle, run_id, src, all_urls, i, imported_count,
                  failed_count, sync_run, open_left, imported_at_start,
                  discovery, importing, finalizations >>

\* main.py:216-220, the handler of one import: record_attempt(url, False,
\* str(e)) takes effect and the loop goes on (without the delay), or raises
\* in turn and the exception reaches main.py:238.
ImportHandler(url) ==
  \/ /\ faults < MaxFaults
     /\ faults' = faults + 1
     /\ attempt_log' = Append(attempt_log, <<url, FALSE>>)
     /\ failed_count' = failed_count + 1
     /\ i' = i + 1
     /\ pc' = pc
  \/ /\ faults + 1 < MaxFaults
     /\ faults' = faults + 2
     /\ pc' = "fatal"
     /\ UNCHANGED << attempt_log, failed_count, i >>

\* main.py:204, record_import() raises.
sync_record_import_raises ==
  /\ pc = "import"
  /\ i <= Len(urls_to_import)
  /\ \E response \in Responses :
       LET url == urls_to_import[i]
       IN  /\ Truthy(import_recipe_from_url(response))
           /\ calls' = Append(calls, url)
           /\ conflicts' = conflicts \cup (IF response = "409" THEN {url} ELSE {})
           /\ returned' = returned \cup
                (IF import_recipe_from_url(response) # None THEN {url} ELSE {})
           /\ ImportHandler(url)
  /\ UNCHANGED << apart, config, session, failed_before, cycle, run_id, src, all_urls, deduplicated, unique_urls, new_urls,
                  urls_to_import, imported_count, sync_run, open_left,
                  imported_at_start, discovery, import_log, import_records,
                  sleeps, finalizations >>

\* main.py:205, record_import() took effect and record_attempt(url,
\* success=True) raises.
sync_record_success_raises ==
  /\ pc = "import"
  /\ i <= Len(urls_to_import)
  /\ \E response \in Responses :
       LET url    == urls_to_import[i]
           recipe == import_recipe_from_url(response)
       IN  /\ Truthy(recipe)
           /\ calls' = Append(calls, url)
           /\ conflicts' = conflicts \cup (IF response = "409" THEN {url} ELSE {})
           /\ returned' = returned \cup
                (IF import_recipe_from_url(response) # None THEN {url} ELSE {})
           /\ import_records' = record_import(import_records, url, recipe)
           /\ import_log' = Append(import_log, url)
           /\ ImportHandler(url)
  /\ UNCHANGED << apart, config, session, failed_before, cycle, run_id, src, all_urls, deduplicated, unique_urls, new_urls,
                  urls_to_import, imported_count, sync_run, open_left,
                  imported_at_start, discovery, sleeps, finalizations >>

\* main.py:209, record_attempt(url, success=False) raises.
sync_record_failure_raises ==
  /\ pc = "import"
  /\ i <= Len(urls_to_import)
  /\ \E response \in Responses :
       LET url == urls_to_import[i]
       IN  /\ ~Truthy(import_recipe_from_url(response))
           /\ calls' = Append(calls, url)
           /\ conflicts' = conflicts \cup (IF response = "409" THEN {url} ELSE {})
           /\ returned' = returned \cup
                (IF import_recipe_from_url(response) # None THEN {url} ELSE {})
           /\ ImportHandler(url)
  /\ UNCHANGED << apart, config, session, failed_before, cycle, run_id, src, all_urls, deduplicated, unique_urls, new_urls,
                  urls_to_import, imported_count, sync_run, open_left,
                  imported_at_start, discovery, import_log, import_records, sleeps, finalizations >>

\* main.py:223, complete_sync_run() raises at the end of the loop.
sync_complete_raises ==
  /\ pc = "import"
  /\ faults < MaxFaults
  /\ faults' = faults + 1
  /\ i > Len(urls_to_import)
  /\ pc' = "fatal"
  /\ UNCHANGED << apart, config, session, failed_before, cycle, run_id, locals, sync_run, open_left,
                  imported_at_start, discovery, importing, finalizations >>

\* main.py:234, get_stats() raises after the run was finalized.
sync_stats_raises ==
  /\ pc = "stats"
  /\ faults < MaxFaults
  /\ faults' = faults + 1
  /\ pc' = "fatal"
  /\ UNCHANGED << apart, config, session, failed_before, cycle, run_id, locals, sync_run, open_left,
                  imported_at_start, discovery, importing, finalizations >>

\* main.py:238-240, the top-level handler finalizes the run as aborted.
sync_except ==
  /\ pc = "fatal"
  /\ sync_run' = complete_sync_run(0, 0, 0, ExceptionMessage)
  /\ finalizations' = finalizations + 1
  /\ pc' = "sleep"
  /\ UNCHANGED << apart, config, session, failed_before, faults, cycle, run_id, locals, open_left,
                  imported_at_start, discovery, importing >>

\* sync_except_raises without the except clause of main(): the exception
\* ends the process.
sync_except_escapes ==
  /\ pc = "fatal"
  /\ faults < MaxFaults
  /\ faults' = faults + 1
  /\ pc' = "exit"
  /\ UNCHANGED << apart, config, session, failed_before, cycle, run_id, locals, sync_run, open_left,
                  imported_at_start, discovery, importing, finalizations >>

\* main.py:240, complete_sync_run() raises inside the handler: the exception
\* leaves sync() and main() logs it (main.py:264-265).
sync_except_raises ==
  /\ pc = "fatal"
  /\ faults < MaxFaults
  /\ faults' = faults + 1
  /\ pc' = "sleep"
  /\ UNCHANGED << apart, config, session, failed_before, cycle, run_id, locals, sync_run, open_left,
                  imported_at_start, discovery, importing, finalizations >>

\* Any call into the state store, and any source, may raise.
NextFault ==
  \/ Next
  \/ sync_start_raises
  \/ sync_not_connected_raises
  \/ discover_source_raises
  \/ discover_mark_raises
  \/ sync_filter_raises
  \/ sync_early_complete_raises
  \/ sync_record_import_raises
  \/ sync_record_success_raises
  \/ sync_record_failure_raises
  \/ sync_complete_raises
  \/ sync_stats_raises
  \/ sync_except
  \/ sync_except_raises

SpecFault == InitFault /\ [][NextFault]_vars

\* main() is one thread that always takes its next step, and time.sleep
\* returns (main.py:261-270).
SpecLive == InitLive /\ [][NextFault]_vars /\ WF_vars(NextFault)

(* ------------------- URLNormalizer (app/crawler.py) ------------------- *)
(* A URL is its host (a string of characters), the names of its query      *)
(* parameters in order and its fragment; scheme and path pass through      *)
(* normalize untouched and are left out.                                   *)

\* Longest host, longest query string and longest allow-list followed.
MaxHostLen == 4
MaxQueryLen == 2
MaxAllow == 2

\* Characters of a host: two letters, one of them in both cases, and the
\* label separator.
HostChars == {"e", "E", "n", "."}

\* Query parameters met, and the ones that track the visitor.
Params == {"utm_source", "ref", "id", "category"}
TrackingParams ==
  {"utm_source", "utm_medium", "utm_campaign", "fbclid", "gclid", "ref"}

Fragments == {"", "comments"}

\* Entries of allow_domains: a domain, or a domain behind the '.' marker.
AllowEntries == {<<"e">>, <<".", "e">>, <<"n", ".", "e">>, <<"e", "n">>}

\* A host has no empty label.
WellFormedHost(h) ==
  /\ Len(h) >= 1
  /\ h[1] # "."
  /\ h[Len(h)] # "."
  /\ \A k \in 1..(Len(h) - 1) : ~(h[k] = "." /\ h[k + 1] = ".")

Hosts == {h \in SeqsUpTo(HostChars, MaxHostLen) : WellFormedHost(h)}

Urls ==
  {[host |-> h, query |-> q, fragment |-> f] :
     h \in Hosts, q \in SeqsUpTo(Params, MaxQueryLen), f \in Fragments}

AllowLists == SeqsUpTo(AllowEntries, MaxAllow)

\* str.lower()
Lower(c) == IF c = "E" THEN "e" ELSE c
LowerAll(h) == [k \in 1..Len(h) |-> Lower(h[k])]

\* normalize that removes the first tracking parameter only.
normalize_first(url) ==
  LET hits == {k \in 1..Len(url.query) : url.query[k] \in TrackingParams}
      Least(S) == CHOOSE k \in S : \A j \in S : k <= j
  IN  [host     |-> LowerAll(url.host),
       query    |-> IF hits = {} THEN url.query
                    ELSE [k \in 1..(Len(url.query) - 1) |->
                            IF k < Least(hits) THEN url.query[k]
                            ELSE url.query[k + 1]],
       fragment |-> ""]

\* URLNormalizer.normalize: the tracking parameters and the fragment go, the
\* host is lowercased, the other parameters stay in their order.
normalize(url) ==
  [host     |-> LowerAll(url.host),
   query    |-> SelectSeq(url.query, LAMBDA p : p \notin TrackingParams),
   fragment |-> ""]

\* URLNormalizer.extract_domain: the lowercased host, labels verbatim.
extract_domain(url) == LowerAll(url.host)

\* The labels of a domain, left to right.
RECURSIVE Labels(_)
Labels(h) ==
  LET dots == {k \in 1..Len(h) : h[k] = "."}
  IN  IF dots = {} THEN << h >>
      ELSE LET d == CHOOSE k \in dots : \A j \in dots : k <= j
           IN  << SubSeq(h, 1, d - 1) >> \o Labels(SubSeq(h, d + 1, Len(h)))

\* An allow-list entry without its '.' marker.
StripMarker(entry) ==
  IF entry # <<>> /\ Head(entry) = "." THEN Tail(entry) ELSE entry

\* a is what b ends with.
IsSuffix(a, b) ==
  /\ Len(a) <= Len(b)
  /\ SubSeq(b, Len(b) - Len(a) + 1, Len(b)) = a

\* matches_domain by the characters the domain ends with, label boundary or
\* not.
matches_domain_chars(url, allow_list) ==
  \E k \in 1..Len(allow_list) :
    IsSuffix(StripMarker(allow_list[k]), extract_domain(url))

\* URLNormalizer.matches_domain: the URL's domain is an entry's domain or a
\* subdomain of it, that is, its labels end with the entry's labels.
matches_domain(url, allow_list) ==
  \E k \in 1..Len(allow_list) :
    IsSuffix(Labels(StripMarker(allow_list[k])), Labels(extract_domain(url)))

\* One URL and one allow-list for matches_domain.
InitMatch ==
  /\ SyncParked
  /\ SourceParked
  /\ LimiterParked
  /\ url_in \in {u \in Urls : u.query = <<>> /\ u.fragment = ""}
  /\ allow_in \in AllowLists
  /\ url_out = <<>>
  /\ match_out = <<>>

\* One URL for normalize.
InitNormalize ==
  /\ SyncParked
  /\ SourceParked
  /\ LimiterParked
  /\ url_in \in Urls
  /\ allow_in = <<>>
  /\ url_out = <<>>
  /\ match_out = <<>>

\* URLNormalizer.matches_domain(url_in, allow_in) is called.
call_matches_domain ==
  /\ match_out = <<>>
  /\ match_out' = << matches_domain(url_in, allow_in) >>
  /\ UNCHANGED << syncing, sourcing, limiter, url_in, allow_in, url_out >>

\* URLNormalizer.normalize(url_in) is called.
call_normalize ==
  /\ url_out = <<>>
  /\ url_out' = << normalize(url_in) >>
  /\ UNCHANGED << syncing, sourcing, limiter, url_in, allow_in, match_out >>

\* URLNormalizer.normalize is called on a URL it returned.
call_normalize_again ==
  /\ Len(url_out) = 1
  /\ url_out' = Append(url_out, normalize(url_out[1]))
  /\ UNCHANGED << syncing, sourcing, limiter, url_in, allow_in, match_out >>

NextMatch == call_matches_domain

NextNormalize ==
  \/ call_normalize
  \/ call_normalize_again

SpecMatch == InitMatch /\ [][NextMatch]_vars

SpecNormalize == InitNormalize /\ [][NextNormalize]_vars

(* ------------- sources.py: one call of get_recipe_urls ---------------- *)

\* Longest feed and longest configured URL list followed.
MaxFeedEntries == 2

\* Links met in feeds and lists: none (''), one of the allowed domain with a
\* tracking parameter and a fragment, one of another domain.
LinkTracked ==
  [host |-> <<"E">>, query |-> <<"utm_source", "id">>,
   fragment |-> "comments"]
LinkOther == [host |-> <<"n">>, query |-> <<>>, fragment |-> ""]
Links == {NoUrl, LinkTracked, LinkOther}

\* allow_domains: absent or empty, or one domain.
SourceAllow == {<<>>, << <<"e">> >>}

\* rss_url_candidates as configured, in order.
Candidates == <<"feed1", "feed2">>

\* max_entries values configured.
EntryLimits == 0..MaxFeedEntries

\* Source configurations: 'address' says whether the source's URL key
\* (rss_url, index_url, crawl_fallback_url) is set.
SourceConfigs ==
  {[type |-> t, address |-> a, allow_domains |-> d, max_entries |-> m,
    rss_url_candidates |-> <<>>, urls |-> <<>>] :
     t \in {"rss", "rss_suffix"}, a \in BOOLEAN, d \in SourceAllow,
     m \in EntryLimits}
  \cup
  {[type |-> "crawl_index", address |-> a, allow_domains |-> d,
    max_entries |-> 0, rss_url_candidates |-> <<>>, urls |-> <<>>] :
     a \in BOOLEAN, d \in SourceAllow}
  \cup
  {[type |-> "rss_or_crawl", address |-> a, allow_domains |-> d,
    max_entries |-> m, rss_url_candidates |-> SubSeq(Candidates, 1, n),
    urls |-> <<>>] :
     a \in BOOLEAN, d \in SourceAllow, m \in EntryLimits,
     n \in 0..Len(Candidates)}
  \cup
  {[type |-> "url_list", address |-> FALSE, allow_domains |-> d,
    max_entries |-> 0, rss_url_candidates |-> <<>>, urls |-> u] :
     d \in SourceAllow, u \in SeqsUpTo(Links, MaxFeedEntries)}

\* What feedparser.parse(url) ends with: an exception, or a feed with its
\* bozo flag and the links of its entries.
Feeds ==
  {[raised |-> TRUE, bozo |-> FALSE, entries |-> <<>>]}
  \cup
  {[raised |-> FALSE, bozo |-> b, entries |-> e] :
     b \in BOOLEAN, e \in SeqsUpTo(Links, MaxFeedEntries)}

\* What crawler.crawl_index_page ends with: an exception, or the canonical
\* in-domain URLs it found.
CrawlOutcomes ==
  {[raised |-> TRUE,  urls |-> <<>>],
   [raised |-> FALSE, urls |-> <<>>],
   [raised |-> FALSE, urls |-> << normalize(LinkTracked) >>]}

\* The entry loop that keeps every non-empty link, allowed or not.
RECURSIVE CollectAll(_, _)
CollectAll(entries, allow_domains) ==
  IF entries = <<>> THEN <<>>
  ELSE IF Head(entries) = NoUrl
       THEN CollectAll(Tail(entries), allow_domains)
       ELSE << normalize(Head(entries)) >>
              \o CollectAll(Tail(entries), allow_domains)

\* sources.py:65-73 (and 106-114, 169-177), the loop over the entries: an
\* entry with an empty link or a link outside allow_domains is passed over,
\* the others are normalized and appended.
RECURSIVE Collect(_, _)
Collect(entries, allow_domains) ==
  IF entries = <<>> THEN <<>>
  ELSE LET url == Head(entries)
           rest == Collect(Tail(entries), allow_domains)
       IN  IF url = NoUrl THEN rest
           ELSE IF allow_domains # <<>>
                     /\ ~matches_domain(url, allow_domains)
                THEN rest
                ELSE << normalize(url) >> \o rest

\* The static list without the allow-list check.
RECURSIVE CollectListAll(_, _)
CollectListAll(urls, allow_domains) ==
  IF urls = <<>> THEN <<>>
  ELSE << normalize(Head(urls)) >> \o CollectListAll(Tail(urls), allow_domains)

\* sources.py:215-221, the loop of the static list: every configured URL is
\* checked, the empty one too.
RECURSIVE CollectList(_, _)
CollectList(urls, allow_domains) ==
  IF urls = <<>> THEN <<>>
  ELSE LET url == Head(urls)
           rest == CollectList(Tail(urls), allow_domains)
       IN  IF allow_domains # <<>> /\ ~matches_domain(url, allow_domains)
           THEN rest
           ELSE << normalize(url) >> \o rest

\* The entries cut to max_entries after the links were filtered.
FeedUrlsCutLast(feed, cfg) ==
  Slice(Collect(feed.entries, cfg.allow_domains), cfg.max_entries)

\* sources.py:66-73: the links of feed.entries[:max_entries].
FeedUrls(feed, cfg) ==
  Collect(Slice(feed.entries, cfg.max_entries), cfg.allow_domains)

\* A URLNormalizer call raises while the entries are gone through: there is
\* one as soon as an entry of feed.entries[:max_entries] has a link.
FeedTrips(feed, cfg) ==
  /\ helper_fails
  /\ \E k \in 1..Len(Slice(feed.entries, cfg.max_entries)) :
       feed.entries[k] # NoUrl

\* One source is constructed; its helpers work.
InitSource ==
  /\ SyncParked
  /\ UrlParked
  /\ LimiterParked
  /\ source_cfg \in SourceConfigs
  /\ helper_fails = FALSE
  /\ source_pc = "call"
  /\ candidate = 1
  /\ fetched = <<>>
  /\ crawled = 0
  /\ source_result = <<>>

\* The same where the calls of URLNormalizer may raise.
InitSourceFault ==
  /\ SyncParked
  /\ UrlParked
  /\ LimiterParked
  /\ source_cfg \in SourceConfigs
  /\ helper_fails \in BOOLEAN
  /\ source_pc = "call"
  /\ candidate = 1
  /\ fetched = <<>>
  /\ crawled = 0
  /\ source_result = <<>>

\* get_recipe_urls returns urls.
Return(urls) ==
  /\ source_pc' = "returned"
  /\ source_result' = urls

\* sources.py:51-56, RSSFeedSource without rss_url.
rss_missing_url ==
  /\ source_pc = "call"
  /\ source_cfg.type = "rss"
  /\ ~source_cfg.address
  /\ Return(<<>>)
  /\ UNCHANGED << syncing, urlcheck, limiter, source_cfg, helper_fails,
                  candidate, fetched, crawled >>

\* The feed source that passes a malformed feed over.
rss_parse_strict ==
  /\ source_pc = "call"
  /\ source_cfg.type = "rss"
  /\ source_cfg.address
  /\ \E feed \in Feeds :
       /\ fetched' = Append(fetched, [url |-> "rss_url", feed |-> feed])
       /\ Return(IF feed.raised \/ feed.bozo \/ FeedTrips(feed, source_cfg)
                 THEN <<>>
                 ELSE FeedUrls(feed, source_cfg))
  /\ UNCHANGED << syncing, urlcheck, limiter, source_cfg, helper_fails,
                  candidate, crawled >>

\* sources.py:58-80, RSSFeedSource: the feed is parsed, bozo is logged, the
\* links of the first max_entries entries are returned; any exception gives
\* [].
rss_parse ==
  /\ source_pc = "call"
  /\ source_cfg.type = "rss"
  /\ source_cfg.address
  /\ \E feed \in Feeds :
       /\ fetched' = Append(fetched, [url |-> "rss_url", feed |-> feed])
       /\ Return(IF feed.raised \/ FeedTrips(feed, source_cfg) THEN <<>>
                 ELSE FeedUrls(feed, source_cfg))
  /\ UNCHANGED << syncing, urlcheck, limiter, source_cfg, helper_fails,
                  candidate, crawled >>

\* sources.py:88-94, RSSSuffixSource without index_url.
rss_suffix_missing_index ==
  /\ source_pc = "call"
  /\ source_cfg.type = "rss_suffix"
  /\ ~source_cfg.address
  /\ Return(<<>>)
  /\ UNCHANGED << syncing, urlcheck, limiter, source_cfg, helper_fails,
                  candidate, fetched, crawled >>

\* sources.py:97-121, RSSSuffixSource: index_url + rss_suffix is parsed as
\* RSSFeedSource parses rss_url.
rss_suffix_parse ==
  /\ source_pc = "call"
  /\ source_cfg.type = "rss_suffix"
  /\ source_cfg.address
  /\ \E feed \in Feeds :
       /\ fetched' = Append(fetched,
                            [url |-> "index_url+rss_suffix", feed |-> feed])
       /\ Return(IF feed.raised \/ FeedTrips(feed, source_cfg) THEN <<>>
                 ELSE FeedUrls(feed, source_cfg))
  /\ UNCHANGED << syncing, urlcheck, limiter, source_cfg, helper_fails,
                  candidate, crawled >>

\* sources.py:129-134, CrawlIndexSource without index_url.
crawl_missing_index ==
  /\ source_pc = "call"
  /\ source_cfg.type = "crawl_index"
  /\ ~source_cfg.address
  /\ Return(<<>>)
  /\ UNCHANGED << syncing, urlcheck, limiter, source_cfg, helper_fails,
                  candidate, fetched, crawled >>

\* CrawlIndexSource that crawls without an allow-list.
crawl_no_allow_crawls ==
  /\ source_pc = "call"
  /\ source_cfg.type = "crawl_index"
  /\ source_cfg.address
  /\ source_cfg.allow_domains = <<>>
  /\ crawled' = crawled + 1
  /\ \E outcome \in CrawlOutcomes : Return(outcome.urls)
  /\ UNCHANGED << syncing, urlcheck, limiter, source_cfg, helper_fails,
                  candidate, fetched >>

\* sources.py:136-138, CrawlIndexSource without allow_domains.
crawl_no_allow ==
  /\ source_pc = "call"
  /\ source_cfg.type = "crawl_index"
  /\ source_cfg.address
  /\ source_cfg.allow_domains = <<>>
  /\ Return(<<>>)
  /\ UNCHANGED << syncing, urlcheck, limiter, source_cfg, helper_fails,
                  candidate, fetched, crawled >>

\* sources.py:140-148, CrawlIndexSource: the crawler is called; what it
\* returns is returned, an exception gives [].
crawl_index_page ==
  /\ source_pc = "call"
  /\ source_cfg.type = "crawl_index"
  /\ source_cfg.address
  /\ source_cfg.allow_domains # <<>>
  /\ crawled' = crawled + 1
  /\ \E outcome \in CrawlOutcomes : Return(outcome.urls)
  /\ UNCHANGED << syncing, urlcheck, limiter, source_cfg, helper_fails,
                  candidate, fetched >>

\* RSSOrCrawlSource that returns the links of the first well-formed feed
\* with entries, whatever they are.
candidate_try_any ==
  /\ source_pc = "call"
  /\ source_cfg.type = "rss_or_crawl"
  /\ candidate <= Len(source_cfg.rss_url_candidates)
  /\ \E feed \in Feeds :
       /\ fetched' = Append(fetched,
                            [url  |-> source_cfg.rss_url_candidates[candidate],
                             feed |-> feed])
       /\ IF ~feed.raised /\ ~feed.bozo /\ feed.entries # <<>>
             /\ ~FeedTrips(feed, source_cfg)
          THEN Return(FeedUrls(feed, source_cfg)) /\ candidate' = candidate
          ELSE /\ candidate' = candidate + 1
               /\ UNCHANGED << source_pc, source_result >>
  /\ UNCHANGED << syncing, urlcheck, limiter, source_cfg, helper_fails,
                  crawled >>

\* sources.py:162-185, RSSOrCrawlSource: one pass of the loop over
\* rss_url_candidates.  The feed is parsed; if it is not bozo and has
\* entries its links are collected, and returned if there is one; after an
\* exception, a bozo feed, no entries or no link the loop goes on.
candidate_try ==
  /\ source_pc = "call"
  /\ source_cfg.type = "rss_or_crawl"
  /\ candidate <= Len(source_cfg.rss_url_candidates)
  /\ \E feed \in Feeds :
       /\ fetched' = Append(fetched,
                            [url  |-> source_cfg.rss_url_candidates[candidate],
                             feed |-> feed])
       /\ IF ~feed.raised /\ ~feed.bozo /\ feed.entries # <<>>
             /\ ~FeedTrips(feed, source_cfg)
             /\ FeedUrls(feed, source_cfg) # <<>>
          THEN Return(FeedUrls(feed, source_cfg)) /\ candidate' = candidate
          ELSE /\ candidate' = candidate + 1
               /\ UNCHANGED << source_pc, source_result >>
  /\ UNCHANGED << syncing, urlcheck, limiter, source_cfg, helper_fails,
                  crawled >>

\* sources.py:188 and 203-204, RSSOrCrawlSource: the candidates are used up
\* and there is no crawl_fallback_url.
fallback_absent ==
  /\ source_pc = "call"
  /\ source_cfg.type = "rss_or_crawl"
  /\ candidate > Len(source_cfg.rss_url_candidates)
  /\ ~source_cfg.address
  /\ Return(<<>>)
  /\ UNCHANGED << syncing, urlcheck, limiter, source_cfg, helper_fails,
                  candidate, fetched, crawled >>

\* sources.py:188-191, RSSOrCrawlSource: a fallback without allow_domains.
fallback_no_allow ==
  /\ source_pc = "call"
  /\ source_cfg.type = "rss_or_crawl"
  /\ candidate > Len(source_cfg.rss_url_candidates)
  /\ source_cfg.address
  /\ source_cfg.allow_domains = <<>>
  /\ Return(<<>>)
  /\ UNCHANGED << syncing, urlcheck, limiter, source_cfg, helper_fails,
                  candidate, fetched, crawled >>

\* sources.py:193-201, RSSOrCrawlSource: the crawl fallback.
fallback_crawl ==
  /\ source_pc = "call"
  /\ source_cfg.type = "rss_or_crawl"
  /\ candidate > Len(source_cfg.rss_url_candidates)
  /\ source_cfg.address
  /\ source_cfg.allow_domains # <<>>
  /\ crawled' = crawled + 1
  /\ \E outcome \in CrawlOutcomes : Return(outcome.urls)
  /\ UNCHANGED << syncing, urlcheck, limiter, source_cfg, helper_fails,
                  candidate, fetched >>

\* The static list that ignores allow_domains.
url_list_load_all ==
  /\ source_pc = "call"
  /\ source_cfg.type = "url_list"
  /\ IF helper_fails /\ source_cfg.urls # <<>>
     THEN source_pc' = "raised" /\ source_result' = source_result
     ELSE Return(CollectListAll(source_cfg.urls, source_cfg.allow_domains))
  /\ UNCHANGED << syncing, urlcheck, limiter, source_cfg, helper_fails,
                  candidate, fetched, crawled >>

\* sources.py:210-224, URLListSource: the configured URLs are checked and
\* normalized outside any try block, so an exception of URLNormalizer
\* leaves get_recipe_urls.
url_list_load ==
  /\ source_pc = "call"
  /\ source_cfg.type = "url_list"
  /\ IF helper_fails /\ source_cfg.urls # <<>>
     THEN source_pc' = "raised" /\ source_result' = source_result
     ELSE Return(CollectList(source_cfg.urls, source_cfg.allow_domains))
  /\ UNCHANGED << syncing, urlcheck, limiter, source_cfg, helper_fails,
                  candidate, fetched, crawled >>

\* One call of get_recipe_urls on the source constructed.
NextSource ==
  \/ rss_missing_url
  \/ rss_parse
  \/ rss_suffix_missing_index
  \/ rss_suffix_parse
  \/ crawl_missing_index
  \/ crawl_no_allow
  \/ crawl_index_page
  \/ candidate_try
  \/ fallback_absent
  \/ fallback_no_allow
  \/ fallback_crawl
  \/ url_list_load

SpecSource == InitSource /\ [][NextSource]_vars

SpecSourceFault == InitSourceFault /\ [][NextSource]_vars

(* -------------------- RateLimiter (app/crawler.py) -------------------- *)
(* main.py:67 constructs one RateLimiter with RATE_LIMIT_SECONDS_PER_DOMAIN *)
(* for the crawler; time is counted in whole seconds.                      *)

\* How long the clock is followed and how many acquire calls are made.
MaxClock == 4
MaxAcquires == 3

\* Domains requests are addressed to.
Domains == {"d1", "d2"}

\* Values of RATE_LIMIT_SECONDS_PER_DOMAIN.
Intervals == {0, 1, 2}

\* No request was granted for the domain yet.
Never == -1

\* The limiter as constructed: no domain has a timestamp.
InitLimiter ==
  /\ SyncParked
  /\ SourceParked
  /\ UrlParked
  /\ interval \in Intervals
  /\ now = 0
  /\ last_request = [d \in Domains |-> Never]
  /\ grant_log = <<>>

\* Time passes while the caller does something else.
tick ==
  /\ now < MaxClock
  /\ now' = now + 1
  /\ UNCHANGED << syncing, sourcing, urlcheck, interval, last_request,
                  grant_log >>

\* acquire that keeps one timestamp for all domains.
acquire_global(domain) ==
  LET last    == Max(last_request["d1"], last_request["d2"])
      granted == IF last = Never THEN now ELSE Max(now, last + interval)
  IN  /\ Len(grant_log) < MaxAcquires
      /\ granted <= MaxClock
      /\ now' = granted
      /\ last_request' = [last_request EXCEPT ![domain] = granted]
      /\ grant_log' = Append(grant_log, << domain, now, granted >>)
      /\ UNCHANGED << syncing, sourcing, urlcheck, interval >>

\* RateLimiter.acquire(domain): sleeps until interval seconds have passed
\* since the last grant for the domain, if there was one, then records the
\* time for the domain and returns.
acquire(domain) ==
  LET last    == last_request[domain]
      granted == IF last = Never THEN now ELSE Max(now, last + interval)
  IN  /\ Len(grant_log) < MaxAcquires
      /\ granted <= MaxClock
      /\ now' = granted
      /\ last_request' = [last_request EXCEPT ![domain] = granted]
      /\ grant_log' = Append(grant_log, << domain, now, granted >>)
      /\ UNCHANGED << syncing, sourcing, urlcheck, interval >>

NextLimiter ==
  \/ tick
  \/ \E domain \in Domains : acquire(domain)

SpecLimiter == InitLimiter /\ [][NextLimiter]_vars

(* ----------------------------- properties ---------------------------- *)

\* The URLs discovered in the current run, in discovery order: the URLs the
\* sources returned, source after source, as mark_url_seen received them.
SeenUrls == [k \in 1..Len(seen_log) |-> seen_log[k][2]]

\* Position of the first occurrence of u in s.
FirstIdx(s, u) ==
  CHOOSE k \in 1..Len(s) : s[k] = u /\ \A j \in 1..(k - 1) : s[j] # u

\* Number of occurrences of u in s.
Count(s, u) == Cardinality({k \in 1..Len(s) : s[k] = u})

\* The new URLs of the current run: discovered, and without an ImportRecord
\* when the run was opened.
NewSet == Range(SeenUrls) \ imported_at_start

\* Position of the new URL u among the new URLs in discovery order.
Rank(u) ==
  1 + Cardinality({v \in NewSet :
                     FirstIdx(SeenUrls, v) < FirstIdx(SeenUrls, u)})

\* URLs with an AttemptRecord written in the current run.
AttemptUrls == {attempt_log[k][1] : k \in 1..Len(attempt_log)}

\* C1: a URL that had an ImportRecord when a run was opened is, in that run,
\* never passed to the import client and gets neither an ImportRecord nor an
\* AttemptRecord, however often it is rediscovered (also when calls raise).
ImportGate ==
  \A u \in imported_at_start :
    /\ u \notin Range(calls)
    /\ u \notin Range(import_log)
    /\ u \notin AttemptUrls

\* C1 witness: a second run rediscovers an imported URL and imports another.
ImportGateWitness ==
  /\ run_id = 2
  /\ pc = "stats"
  /\ calls # <<>>
  /\ \E u \in imported_at_start : u \in Range(SeenUrls)

\* C2: over all runs no URL gets more than one ImportRecord, and within a
\* run record_import acts at most once per URL, also for a URL returned
\* several times by one source or by several sources.
AtMostOnceImport ==
  \A u \in URLS :
    /\ import_records[u] <= 1
    /\ Count(import_log, u) <= 1

\* C2 witness: in a second run one URL, returned by both sources, is
\* imported while an already imported URL is rediscovered.
AtMostOnceImportWitness ==
  /\ run_id = 2
  /\ pc = "stats"
  /\ \E u \in imported_at_start : u \in Range(SeenUrls)
  /\ \E v \in Range(import_log) :
       \E j, k \in 1..Len(seen_log) :
         seen_log[j] = <<1, v>> /\ seen_log[k] = <<4, v>>

\* C3: in a non-dry run with n new URLs and a cap c >= 0 the import client
\* is called for the first min(n, c) new URLs in discovery order, exactly
\* those once the loop is over; the other new URLs get no ImportRecord and
\* no AttemptRecord and stay without one, and the candidate list of a run is
\* the discovered URLs that had no ImportRecord.
CapEnforcement ==
  (~dry_run /\ max_recipes_per_run >= 0) =>
    LET m == Min(Cardinality(NewSet), max_recipes_per_run)
    IN  /\ Len(calls) <= m
        /\ \A k \in 1..Len(calls) :
             calls[k] \in NewSet /\ Rank(calls[k]) = k
        /\ pc \in {"stats", "sleep"} => Len(calls) = m
        /\ \A u \in NewSet :
             Rank(u) > m =>
               /\ u \notin Range(import_log)
               /\ u \notin AttemptUrls
               /\ import_records[u] = 0
        /\ deduplicated => Range(new_urls) = NewSet

\* C3 witness: three new URLs, cap 2, two calls made, the loop is over.
CapEnforcementWitness ==
  /\ ~dry_run
  /\ max_recipes_per_run = 2
  /\ Cardinality(NewSet) = 3
  /\ pc = "stats"
  /\ Len(calls) = 2

\* C4: sources are asked in configuration order, and the import calls
\* follow the first occurrences of the new URLs in the combined discovery
\* list; the URLs called are always the earliest-discovered new ones.
DiscoveryOrder ==
  /\ \A j, k \in 1..Len(source_log) : j < k => source_log[j] < source_log[k]
  /\ \A j, k \in 1..Len(seen_log) : j < k => seen_log[j][1] <= seen_log[k][1]
  /\ Range(calls) \subseteq NewSet
  /\ \A j, k \in 1..Len(calls) :
       j < k => FirstIdx(SeenUrls, calls[j]) < FirstIdx(SeenUrls, calls[k])
  /\ \A u \in NewSet \ Range(calls) :
       \A v \in Range(calls) : FirstIdx(SeenUrls, v) < FirstIdx(SeenUrls, u)

\* C4 witness: the first source returns x, y, the second x again and z;
\* with room for two, x and y are called and z is not.
DiscoveryOrderWitness ==
  /\ pc = "stats"
  /\ Len(seen_log) = 4
  /\ seen_log[2][1] = 1
  /\ seen_log[3][1] = 4
  /\ SeenUrls[3] = SeenUrls[1]
  /\ calls = << SeenUrls[1], SeenUrls[2] >>
  /\ SeenUrls[4] \in NewSet \ Range(calls)

\* C5: the deduplicated list holds each distinct discovered URL exactly
\* once, in the order of the first occurrences; [a, b, a, c] gives [a, b, c].
DedupFirstOccurrence ==
  deduplicated =>
    /\ Range(unique_urls) = Range(all_urls)
    /\ \A j, k \in 1..Len(unique_urls) :
         j < k =>
           /\ unique_urls[j] # unique_urls[k]
           /\ FirstIdx(all_urls, unique_urls[j])
                < FirstIdx(all_urls, unique_urls[k])
    /\ all_urls = << "a", "b", "a", "c" >> => unique_urls = << "a", "b", "c" >>

\* C5 witness: [a, b, a, c] was discovered and deduplicated.
DedupFirstOccurrenceWitness ==
  /\ deduplicated
  /\ all_urls = << "a", "b", "a", "c" >>
  /\ unique_urls = << "a", "b", "c" >>

\* C6: a URL the downstream answered with 409 gets an ImportRecord and a
\* successful AttemptRecord and is counted as imported in the run record;
\* a URL with an ImportRecord is not passed to the client in a later run.
ConflictIsSuccess ==
  /\ \A u \in conflicts :
       /\ import_records[u] = 1
       /\ u \in Range(import_log)
       /\ <<u, TRUE>> \in Range(attempt_log)
       /\ <<u, FALSE>> \notin Range(attempt_log)
  /\ imported_count = Len(import_log)
  /\ (pc \in {"stats", "sleep"} /\ conn_outcome = "ok") =>
       sync_run.imported = Len(import_log)
  /\ \A u \in imported_at_start : u \notin Range(calls)

\* C6 witness: a second run in which every import was a 409 is finalized,
\* having rediscovered a URL imported before.
ConflictIsSuccessWitness ==
  /\ run_id = 2
  /\ pc = "stats"
  /\ conflicts # {}
  /\ conflicts = Range(import_log)
  /\ sync_run.imported = Cardinality(conflicts)
  /\ \E u \in imported_at_start : u \in Range(SeenUrls)

\* C7: in dry-run mode a run makes no import call and writes no ImportRecord
\* and no AttemptRecord; it is finalized with imported = 0 and failed = 0
\* and, once connected, with the number of URLs discovered.
DryRunFrame ==
  dry_run =>
    /\ calls = <<>>
    /\ import_log = <<>>
    /\ attempt_log = <<>>
    /\ get_imported_urls = imported_at_start
    /\ pc = "sleep" =>
         /\ sync_run.status = "final"
         /\ sync_run.imported = 0
         /\ sync_run.failed = 0
         /\ conn_outcome = "ok" =>
              /\ sync_run.discovered = Len(seen_log)
              /\ sync_run.reason = None

\* C7 witness: a dry run with three candidates out of four discovered URLs.
DryRunFrameWitness ==
  /\ dry_run
  /\ pc = "sleep"
  /\ Len(new_urls) = 3
  /\ Len(seen_log) = 4
  /\ sync_run.discovered = 4

\* C8: when the connection test fails the run is finalized at once with a
\* failure reason and zero counts; no source is asked and no SeenRecord,
\* ImportRecord or AttemptRecord is written.
ConnectivityGate ==
  conn_outcome \notin {None, "ok"} =>
    /\ pc = "sleep"
    /\ sync_run.status = "final"
    /\ sync_run.reason # None
    /\ sync_run.discovered = 0
    /\ sync_run.imported = 0
    /\ sync_run.failed = 0
    /\ source_log = <<>>
    /\ seen_log = <<>>
    /\ all_urls = <<>>
    /\ calls = <<>>
    /\ import_log = <<>>
    /\ attempt_log = <<>>
    /\ get_imported_urls = imported_at_start

\* C8 witness: the second run meets a timeout, with imports in the store.
ConnectivityGateWitness ==
  /\ run_id = 2
  /\ conn_outcome = "timeout"
  /\ pc = "sleep"
  /\ imported_at_start # {}

\* C9: complete_sync_run takes effect at most once for a run id, on every
\* path through sync(), so a finalized row is never overwritten.
FinalizedAtMostOnce == finalizations <= 1

\* C10: when sync() has returned control to the cycle loop, the run it
\* opened is finalized, and no earlier run was left open.
FinalizedOnReturn ==
  (pc = "sleep" /\ sync_run.status # "none") =>
    (sync_run.status = "final" /\ open_left = 0)

\* C11: when an exception escapes discovery, deduplication, filtering or the
\* import loop (the run is connected and not yet finalized), the step that
\* leaves the top-level handler finalizes the run as aborted, with the
\* exception message as failure reason and all three counts zero.
FatalIsAborted ==
  [][(pc = "fatal" /\ conn_outcome = "ok" /\ finalizations = 0
        /\ pc' # "fatal") =>
       /\ sync_run'.status = "final"
       /\ sync_run'.reason = ExceptionMessage
       /\ sync_run'.discovered = 0
       /\ sync_run'.imported = 0
       /\ sync_run'.failed = 0]_vars

\* C12: whatever way a cycle ends (completed, aborted, or with an exception
\* raised out of sync()), control comes back to the sleep of the loop, and
\* after the sleep the next cycle starts.
CycleLiveness ==
  /\ (pc \notin {"idle", "sleep"}) ~> (pc = "sleep")
  /\ \A n \in 1..(MaxRuns - 1) : (cycle = n) ~> (cycle = n + 1)

\* C12 witness: a second cycle is running after the first one ended with an
\* exception raised out of sync(), its run left open.
CycleLivenessWitness ==
  /\ cycle = 2
  /\ run_id = 2
  /\ open_left = 1
  /\ pc = "test_connection"

\* C13: a URL with a failed attempt in an earlier run and no ImportRecord
\* is, in every later run that rediscovers it, a candidate again, and the
\* import client is called for it when it is among the first cap candidates.
FailedDoesNotGate ==
  \A u \in failed_before :
    (u \notin imported_at_start /\ u \in Range(SeenUrls)) =>
      /\ deduplicated => u \in Range(new_urls)
      /\ (~dry_run /\ pc \in {"stats", "sleep"}
            /\ Rank(u) <= max_recipes_per_run) => u \in Range(calls)

\* C13 witness: in the second run a URL whose attempt failed in the first
\* run is attempted again and imported, a second new URL is beyond the cap.
FailedDoesNotGateWitness ==
  /\ run_id = 2
  /\ pc = "stats"
  /\ max_recipes_per_run = 1
  /\ Cardinality(NewSet) = 2
  /\ \E u \in failed_before : calls = <<u>> /\ import_log = <<u>>

\* The sources discover_urls asks: enabled and of a known type, in order.
AskedSources ==
  SelectSeq([k \in 1..Len(Sources) |-> k],
            LAMBDA k : Enabled(Sources[k]) /\ create_source(Sources[k]) # None)

\* C14: when get_recipe_urls or mark_url_seen raises for a source, the
\* combined list is left as it was, discovery goes on with the next source
\* and the run is not finalized; every enabled source is asked in every
\* connected run, whatever raised before it.
PerSourceIsolation ==
  /\ [][(pc = "discover" /\ src <= Len(Sources) /\ faults' > faults) =>
          /\ all_urls' = all_urls
          /\ pc' = "discover"
          /\ src' = src + 1
          /\ sync_run' = sync_run]_vars
  /\ []((conn_outcome = "ok" /\ src > Len(Sources)) =>
          source_log = AskedSources)

\* C14 witness: the first source raised after one of its URLs was marked
\* seen, the second source gave the only candidate, and the run completed.
PerSourceIsolationWitness ==
  /\ pc = "stats"
  /\ sync_run.reason = None
  /\ faults >= 1
  /\ Len(seen_log) = 2
  /\ seen_log[1][1] = 1
  /\ seen_log[2][1] = 4
  /\ all_urls = << seen_log[2][2] >>
  /\ calls = all_urls

\* C15: a source with enabled = false or with an unknown type tag is never
\* asked for URLs and has no SeenRecord and no candidate from it; every
\* other source, also one without an enabled flag, is asked in each
\* connected run.
SkippedSources ==
  /\ \A k \in Range(source_log) :
       Sources[k].enabled # "false" /\ Sources[k].type \in KnownTypes
  /\ \A j \in 1..Len(seen_log) :
       /\ Sources[seen_log[j][1]].enabled # "false"
       /\ Sources[seen_log[j][1]].type \in KnownTypes
  /\ Range(all_urls) \subseteq Range(SeenUrls)
  /\ (conn_outcome = "ok" /\ src > Len(Sources)) =>
       \A k \in 1..Len(Sources) :
         (Sources[k].enabled \in {"absent", "true"}
            /\ Sources[k].type \in KnownTypes) => k \in Range(source_log)

\* C15 witness: the source without a flag and the source behind the two
\* skipped ones both gave a URL that was imported.
SkippedSourcesWitness ==
  /\ pc = "stats"
  /\ source_log = <<1, 4>>
  /\ Sources[1].enabled = "absent"
  /\ Len(seen_log) = 2
  /\ seen_log[1][1] = 1
  /\ seen_log[2][1] = 4
  /\ Len(import_log) = 2

\* C16: every entry of the combined candidate list, and so every candidate
\* and every URL passed to the import client, was passed to mark_url_seen in
\* the same run: whether it is imported already, beyond the cap, in a dry
\* run, or failing to import.
SeenBeforeCandidate ==
  /\ \A u \in URLS : Count(all_urls, u) <= Count(SeenUrls, u)
  /\ Range(unique_urls) \subseteq Range(SeenUrls)
  /\ Range(new_urls) \subseteq Range(SeenUrls)
  /\ Range(calls) \subseteq Range(SeenUrls)

\* C16 witness: a second run with cap 1 discovered an imported URL, a URL
\* whose import failed and a URL beyond the cap; all three were marked seen.
SeenBeforeCandidateWitness ==
  /\ run_id = 2
  /\ pc = "stats"
  /\ max_recipes_per_run = 1
  /\ Len(all_urls) = 3
  /\ Len(seen_log) = 3
  /\ all_urls[1] \in imported_at_start
  /\ attempt_log = << <<all_urls[2], FALSE>> >>
  /\ all_urls[3] \in NewSet \ Range(calls)

\* C17: an ImportRecord is written only by the step in which the import
\* client was called for that URL and returned a record: every ImportRecord
\* of a run belongs to such a URL, and none to a URL whose call returned no
\* record.
ImportOnlyOnSuccess ==
  /\ [](/\ Range(import_log) \subseteq returned
        /\ \A u \in URLS :
             import_records[u] >= 1 => u \in imported_at_start \cup returned)
  /\ [][import_records' # import_records =>
          \E u \in URLS :
            /\ calls' = Append(calls, u)
            /\ u \in returned'
            /\ import_log' = Append(import_log, u)
            /\ import_records' = [import_records EXCEPT ![u] = @ + 1]]_vars

\* C17 witness: of two calls one returned no record and one a record; only
\* the second URL has an ImportRecord.
ImportOnlyOnSuccessWitness ==
  /\ pc = "stats"
  /\ Len(calls) = 2
  /\ calls[1] \notin returned
  /\ import_records[calls[1]] = 0
  /\ returned = {calls[2]}
  /\ import_log = << calls[2] >>
  /\ import_records[calls[2]] = 1

\* C18: when a call of the import client ends with anything but a 200 with
\* a JSON object or a 409 (a timeout, a connection failure, retries used
\* up, an unparseable body, another HTTP error status), the call returns
\* without raising, a failed attempt is recorded for the URL, no ImportRecord
\* is written, and the loop goes on to the next URL with the run open.
FailureTaxonomy ==
  [][(pc = "import_return" /\ answer \notin {"200", "409"}) =>
       /\ attempt_log' = Append(attempt_log, <<urls_to_import[i], FALSE>>)
       /\ failed_count' = failed_count + 1
       /\ imported_count' = imported_count
       /\ import_records' = import_records
       /\ import_log' = import_log
       /\ i' = i + 1
       /\ pc' = "import"
       /\ sync_run' = sync_run]_vars

\* C18 witness: the call for the first of two URLs used up its retries; a
\* failed attempt is recorded and the loop stands at the second URL.
FailureTaxonomyWitness ==
  /\ pc = "import"
  /\ Len(urls_to_import) = 2
  /\ i = 2
  /\ requests_sent = 0
  /\ answer = "retry_error"
  /\ attempt_log = << <<urls_to_import[1], FALSE>> >>
  /\ import_records[urls_to_import[1]] = 0
  /\ sync_run.status = "open"

\* C19: one call of import_recipe_from_url sends at most 3 HTTP requests,
\* the first request and all retries counted.
BoundedRetry == requests_sent <= 3

\* C20: outside dry-run, when only the static-list source yields URLs, n of
\* them, distinct and n <= cap: a first run from the empty store in which
\* every import call returns a record is finalized with discovered = n,
\* imported = n, failed = 0 and leaves exactly those n ImportRecords; a
\* second run that finds the store so and the same URLs makes no import
\* call and is finalized with imported = 0.
EndToEnd ==
  LET n == Len(seen_log)
  IN  (/\ ~dry_run
       /\ conn_outcome = "ok"
       /\ pc \in {"stats", "sleep"}
       /\ \A j \in 1..n : Sources[seen_log[j][1]].type = "url_list"
       /\ \A u \in URLS : Count(SeenUrls, u) <= 1
       /\ n <= max_recipes_per_run) =>
        /\ (run_id = 1 /\ Range(calls) \subseteq returned) =>
             /\ sync_run = [status |-> "final", discovered |-> n,
                            imported |-> n, failed |-> 0, reason |-> None]
             /\ get_imported_urls = Range(SeenUrls)
             /\ Cardinality(get_imported_urls) = n
             /\ \A u \in URLS : import_records[u] <= 1
        /\ (run_id = 2 /\ imported_at_start = Range(SeenUrls)) =>
             /\ calls = <<>>
             /\ sync_run = [status |-> "final", discovered |-> n,
                            imported |-> 0, failed |-> 0, reason |-> None]
             /\ get_imported_urls = imported_at_start

\* C20 witness: the second run of the scenario with n = 2 and cap 2 is over.
EndToEndWitness ==
  /\ ~dry_run
  /\ max_recipes_per_run = 2
  /\ run_id = 2
  /\ pc = "sleep"
  /\ Len(seen_log) = 2
  /\ seen_log[1][1] = 4
  /\ seen_log[2][1] = 4
  /\ Cardinality(imported_at_start) = 2
  /\ imported_at_start = Range(SeenUrls)
  /\ calls = <<>>
  /\ sync_run.imported = 0

(* ------------------- properties of the sources ------------------------ *)

\* The links a source takes from a feed: the normalized links of those of
\* its first max_entries entries that have a link inside allow_domains.
LinksOf(feed, cfg) ==
  LET first == SubSeq(feed.entries, 1, Min(cfg.max_entries, Len(feed.entries)))
      kept  == SelectSeq(first,
                 LAMBDA l : /\ l # NoUrl
                            /\ \/ cfg.allow_domains = <<>>
                               \/ matches_domain(l, cfg.allow_domains))
  IN  [k \in 1..Len(kept) |-> normalize(kept[k])]

\* The k-th feed fetched parsed without the malformed flag and has entries.
Parsed(k) ==
  /\ ~fetched[k].feed.raised
  /\ ~fetched[k].feed.bozo
  /\ fetched[k].feed.entries # <<>>

\* It also yields a link.
Usable(k) == Parsed(k) /\ LinksOf(fetched[k].feed, source_cfg) # <<>>

\* The candidates of the feed-or-crawl source are fetched in configured
\* order.
InConfiguredOrder ==
  /\ Len(fetched) <= Len(source_cfg.rss_url_candidates)
  /\ \A k \in 1..Len(fetched) :
       fetched[k].url = source_cfg.rss_url_candidates[k]

\* C21 as stated: the feed-or-crawl source fetches its candidates in
\* configured order and returns the links of the first one that parses
\* without the malformed flag and has an entry; after such a candidate no
\* other candidate is fetched and the crawler is not called; the crawler is
\* called only when every candidate failed, was malformed or had no entry.
FirstParsedFeedWins ==
  source_cfg.type = "rss_or_crawl" =>
    /\ InConfiguredOrder
    /\ \A k \in 1..Len(fetched) :
         Parsed(k) =>
           /\ Len(fetched) = k
           /\ crawled = 0
           /\ source_pc = "returned" =>
                source_result = LinksOf(fetched[k].feed, source_cfg)
    /\ crawled > 0 =>
         /\ Len(fetched) = Len(source_cfg.rss_url_candidates)
         /\ \A k \in 1..Len(fetched) : ~Parsed(k)

\* C21 amended: the feed-or-crawl source fetches its candidates in
\* configured order and returns the links of the first one that parses
\* without the malformed flag and yields a link (a non-empty link inside
\* allow_domains among its first max_entries entries); after such a
\* candidate no other candidate is fetched and the crawler is not called; a
\* candidate that yields no link is passed over like a failed one: without
\* a candidate that yields a link every candidate is fetched, and the
\* crawler is called only then, when a fallback URL and allow_domains are
\* configured; otherwise the source returns no URL.
FirstUsableFeedWins ==
  source_cfg.type = "rss_or_crawl" =>
    /\ InConfiguredOrder
    /\ \A k \in 1..Len(fetched) :
         Usable(k) =>
           /\ Len(fetched) = k
           /\ crawled = 0
           /\ source_pc = "returned"
           /\ source_result = LinksOf(fetched[k].feed, source_cfg)
    /\ crawled > 0 =>
         /\ Len(fetched) = Len(source_cfg.rss_url_candidates)
         /\ \A k \in 1..Len(fetched) : ~Usable(k)
    /\ (source_pc = "returned" /\ \A k \in 1..Len(fetched) : ~Usable(k)) =>
         /\ Len(fetched) = Len(source_cfg.rss_url_candidates)
         /\ crawled = (IF source_cfg.address
                          /\ source_cfg.allow_domains # <<>> THEN 1 ELSE 0)
         /\ crawled = 0 => source_result = <<>>

\* C21 witness: the first candidate parsed well with entries but yielded no
\* link, the second one did, and its links were returned without a crawl.
FirstUsableFeedWinsWitness ==
  /\ source_cfg.type = "rss_or_crawl"
  /\ source_pc = "returned"
  /\ Len(fetched) = 2
  /\ Parsed(1) /\ ~Usable(1)
  /\ Usable(2)
  /\ source_result = LinksOf(fetched[2].feed, source_cfg)
  /\ source_result # <<>>
  /\ source_cfg.address
  /\ crawled = 0

\* C22: a crawl-index source and a feed-or-crawl source without
\* allow_domains never call the crawler; the crawl-index source returns no
\* URL, and so does the feed-or-crawl source once it is down to its
\* fallback (no candidate yielded a link).
AllowListMandatory ==
  (source_cfg.type \in {"crawl_index", "rss_or_crawl"}
     /\ source_cfg.allow_domains = <<>>) =>
    /\ crawled = 0
    /\ source_pc = "returned" =>
         \/ source_result = <<>>
         \/ /\ source_cfg.type = "rss_or_crawl"
            /\ fetched # <<>>
            /\ Usable(Len(fetched))

\* C22 witness: a crawl-index source with an index URL and a feed-or-crawl
\* source with a fallback URL whose candidates failed, both without
\* allow_domains, returned: no crawl, no URL.
AllowListMandatoryWitness ==
  /\ source_cfg.allow_domains = <<>>
  /\ source_cfg.address
  /\ source_pc = "returned"
  /\ crawled = 0
  /\ source_result = <<>>
  /\ \/ source_cfg.type = "crawl_index"
     \/ /\ source_cfg.type = "rss_or_crawl"
        /\ Len(fetched) = 2
        /\ \A k \in 1..2 : ~Usable(k)

\* C23: whatever the variant, the configuration and the failures of the feed
\* parser, the crawler and URLNormalizer, get_recipe_urls returns a list:
\* no exception leaves it.
SourcesNeverRaise == source_pc # "raised"

\* C24: the static-list source fetches nothing and returns, in configured
\* order, the normalized form of exactly the configured URLs whose domain
\* matches allow_domains, of all of them when there is no allow-list.
StaticList ==
  source_cfg.type = "url_list" =>
    /\ fetched = <<>>
    /\ crawled = 0
    /\ source_pc = "returned" =>
         LET kept == SelectSeq(source_cfg.urls,
                       LAMBDA u : \/ source_cfg.allow_domains = <<>>
                                  \/ matches_domain(u, source_cfg.allow_domains))
         IN  /\ Len(source_result) = Len(kept)
             /\ \A k \in 1..Len(kept) : source_result[k] = normalize(kept[k])

\* C24 witness: of two configured URLs the one outside the allow-list was
\* dropped and the other one returned without its tracking parameter.
StaticListWitness ==
  /\ source_cfg.type = "url_list"
  /\ source_cfg.allow_domains # <<>>
  /\ source_cfg.urls = << LinkOther, LinkTracked >>
  /\ source_pc = "returned"
  /\ source_result = << normalize(LinkTracked) >>
  /\ source_result # << LinkTracked >>

\* C25: the feed source and the feed-by-suffix source return at most
\* max_entries URLs, the links (normalized, in feed order) of the first
\* max_entries entries of the feed without the entries that have an empty
\* link or a link outside allow_domains; no entry behind the first
\* max_entries is returned, even when earlier entries were left out.
FeedEntryBound ==
  (source_cfg.type \in {"rss", "rss_suffix"}
     /\ source_pc = "returned" /\ fetched # <<>>) =>
    LET feed  == fetched[1].feed
        first == Min(source_cfg.max_entries, Len(feed.entries))
    IN  /\ Len(fetched) = 1
        /\ Len(source_result) <= source_cfg.max_entries
        /\ feed.raised => source_result = <<>>
        /\ ~feed.raised => source_result = LinksOf(feed, source_cfg)
        /\ \A k \in 1..Len(source_result) :
             \E j \in 1..first :
               /\ feed.entries[j] # NoUrl
               /\ source_result[k] = normalize(feed.entries[j])

\* C25 witness: with max_entries = 1 the first entry was outside the
\* allow-list and the second one, inside it, was not returned.
FeedEntryBoundWitness ==
  /\ source_cfg.type \in {"rss", "rss_suffix"}
  /\ source_pc = "returned"
  /\ source_cfg.max_entries = 1
  /\ source_cfg.allow_domains # <<>>
  /\ Len(fetched) = 1
  /\ ~fetched[1].feed.raised
  /\ fetched[1].feed.entries = << LinkOther, LinkTracked >>
  /\ source_result = <<>>

\* The k-th feed fetched came with the malformed flag.
Malformed(k) == ~fetched[k].feed.raised /\ fetched[k].feed.bozo

\* C26 as stated: in the feed, feed-by-suffix and feed-or-crawl sources a
\* feed the parser flags as malformed contributes no URL to the result, and
\* the source does not fail for it.
MalformedFeedUnusable ==
  /\ source_pc # "raised"
  /\ (source_cfg.type \in {"rss", "rss_suffix", "rss_or_crawl"}
        /\ source_pc = "returned" /\ crawled = 0 /\ fetched # <<>>
        /\ Malformed(Len(fetched))) =>
       source_result = <<>>

\* C26 amended: a candidate of the feed-or-crawl source that the parser flags
\* as malformed contributes no URL and the source goes on to its next
\* candidate or its fallback; the feed and feed-by-suffix sources only log
\* the flag and return the links of a malformed feed as they return those of
\* a well-formed one; no source fails for the flag.
MalformedFeedHandling ==
  /\ source_pc # "raised"
  /\ source_cfg.type = "rss_or_crawl" =>
       \A k \in 1..Len(fetched) :
         Malformed(k) =>
           /\ candidate > k
           /\ (source_pc = "returned" /\ k = Len(fetched)) =>
                /\ k = Len(source_cfg.rss_url_candidates)
                /\ crawled = 0 => source_result = <<>>
  /\ (source_cfg.type \in {"rss", "rss_suffix"}
        /\ source_pc = "returned" /\ fetched # <<>>
        /\ ~fetched[1].feed.raised) =>
       source_result = LinksOf(fetched[1].feed, source_cfg)

\* C26 witness: a feed source returned the link of a feed flagged as
\* malformed.
MalformedFeedHandlingWitness ==
  /\ source_cfg.type = "rss"
  /\ source_pc = "returned"
  /\ Len(fetched) = 1
  /\ Malformed(1)
  /\ fetched[1].feed.entries = << LinkTracked >>
  /\ source_result = << normalize(LinkTracked) >>

(* ------------------- properties of URLNormalizer ---------------------- *)

\* C27: matches_domain(url, allow_list) is true exactly when the lowercased
\* host of url is an entry of allow_list without its leading '.', or ends
\* with '.' followed by such an entry; the case of the host does not
\* matter, and a host that ends with the characters of an entry without a
\* '.' before them does not match for that entry.
DomainMatching ==
  match_out # <<>> =>
    LET host == LowerAll(url_in.host)
        Hit(entry) ==
          \/ host = StripMarker(entry)
          \/ IsSuffix(<<".">> \o StripMarker(entry), host)
    IN  /\ match_out[1] = (\E k \in 1..Len(allow_in) : Hit(allow_in[k]))
        /\ match_out[1] =
             matches_domain([url_in EXCEPT !.host = host], allow_in)

\* C27 witness: against the entry 'e', host 'ne' did not match or host 'n.E'
\* did.
DomainMatchingWitness ==
  /\ allow_in = << <<"e">> >>
  /\ \/ url_in.host = <<"n", "e">> /\ match_out = << FALSE >>
     \/ url_in.host = <<"n", ".", "E">> /\ match_out = << TRUE >>

\* C28: normalize applied to a URL it returned gives that URL again; what
\* it returns has no tracking parameter and no fragment, a lowercase host,
\* and the other parameters of the URL in their order.
NormalizeIdempotent ==
  /\ Len(url_out) >= 1 =>
       /\ \A k \in 1..Len(url_out[1].query) :
            url_out[1].query[k] \notin TrackingParams
       /\ url_out[1].fragment = ""
       /\ \A k \in 1..Len(url_out[1].host) : url_out[1].host[k] # "E"
       /\ Len(url_out[1].host) = Len(url_in.host)
       /\ url_out[1].query =
            SelectSeq(url_in.query, LAMBDA p : p \in {"id", "category"})
  /\ Len(url_out) = 2 => url_out[2] = url_out[1]

\* C28 witness: a URL with an uppercase host, two tracking parameters and a
\* fragment was normalized twice, the first time to another URL.
NormalizeIdempotentWitness ==
  /\ Len(url_out) = 2
  /\ url_in.host = <<"E", ".", "n">>
  /\ url_in.query = <<"utm_source", "ref">>
  /\ url_in.fragment = "comments"
  /\ url_out[1] = [host |-> <<"e", ".", "n">>, query |-> <<>>, fragment |-> ""]

(* -------------------- properties of RateLimiter ----------------------- *)

\* The last acquire before the k-th one that was for the same domain, 0 if
\* there is none.
Previous(k) ==
  LET same == {j \in 1..(k - 1) : grant_log[j][1] = grant_log[k][1]}
  IN  IF same = {} THEN 0 ELSE CHOOSE j \in same : \A h \in same : h <= j

\* C29: two consecutive grants for one domain are at least the configured
\* interval apart, and an acquire waits only for its own domain: it is
\* granted at the time of the call unless the interval since the last grant
\* for the same domain is still running, and then when it ends.
Politeness ==
  \A k \in 1..Len(grant_log) :
    LET called  == grant_log[k][2]
        granted == grant_log[k][3]
        j       == Previous(k)
    IN  /\ granted >= called
        /\ j = 0 => granted = called
        /\ j > 0 =>
             /\ granted - grant_log[j][3] >= interval
             /\ granted = Max(called, grant_log[j][3] + interval)

\* C29 witness: d1 was granted, then d2 at once although the interval of d1
\* was running, then d1 again after a wait until its interval was over.
PolitenessWitness ==
  /\ interval = 2
  /\ Len(grant_log) = 3
  /\ grant_log[1] = << "d1", 0, 0 >>
  /\ grant_log[2] = << "d2", 1, 1 >>
  /\ grant_log[3] = << "d1", 1, 2 >>

(* ------------------ properties of the import loop --------------------- *)

\* C30: for every URL for which the import client returned a record (a 200
\* with a JSON object, with or without fields, or the 409 record) sync has
\* called record_import and record_attempt(success = true) and counted it
\* as imported; a failed attempt is recorded, and counted, only for a URL
\* for which no record was returned.
ReturnedRecordPersisted ==
  LET Failed == {u \in URLS : <<u, FALSE>> \in Range(attempt_log)}
  IN  /\ \A u \in returned :
           /\ u \in Range(import_log)
           /\ <<u, TRUE>> \in Range(attempt_log)
           /\ u \notin Failed
      /\ imported_count = Cardinality(returned)
      /\ failed_count = Cardinality(Failed)

\* C31: in the import loop the delay step has been executed once for every
\* URL processed so far, whatever its outcome (a record, no record, or an
\* exception while importing or recording): before the call for the next
\* URL, and after the last one, there are as many delays as URLs processed.
PoliteDelay == pc = "import" => sleeps = i - 1

\* C32: when a call raises for a URL inside the import loop, sync records
\* a failed attempt for that URL, counts it as failed and goes on with the
\* next URL; the exception does not reach the top-level handler and the run
\* stays open, to be finalized as completed.
ExceptionContained ==
  [][(pc = "import" /\ i <= Len(urls_to_import) /\ faults' > faults) =>
       /\ attempt_log' = Append(attempt_log, <<urls_to_import[i], FALSE>>)
       /\ failed_count' = failed_count + 1
       /\ i' = i + 1
       /\ pc' = "import"
       /\ sync_run' = sync_run]_vars

\* C33: a run finalized without a failure reason outside dry-run has
\* imported + failed equal to the number of URLs selected for import,
\* min(cap, number of new URLs); with no new URLs both counts are 0 and
\* the import client was not called.
CountConservation ==
  (sync_run.status = "final" /\ sync_run.reason = None /\ ~dry_run) =>
     /\ sync_run.imported + sync_run.failed =
          Min(max_recipes_per_run, Len(new_urls))
     /\ new_urls = <<>> =>
          (sync_run.imported = 0 /\ sync_run.failed = 0 /\ calls = <<>>)

\* C34: the counts of a finalized run match the store: imported is the
\* number of ImportRecords written during the run, failed the number of
\* URLs attempted in the run that ended without an ImportRecord, also when
\* calls of the state store have raised.
RunMatchesStore ==
  sync_run.status = "final" =>
     /\ sync_run.imported = Len(import_log)
     /\ sync_run.failed =
          Cardinality({u \in Range(calls) : u \notin Range(import_log)})

\* C35: within a run no failed attempt is recorded for a URL whose
\* ImportRecord has been persisted in that run.
NoFailureAfterSuccess ==
  \A k \in 1..Len(attempt_log) :
     attempt_log[k][2] = FALSE => attempt_log[k][1] \notin Range(import_log)

\* C36: a run finalized without a failure reason records as discovered the
\* total number of URLs returned by the sources processed without an
\* exception, counted before deduplication and before the already-imported
\* URLs are removed.
DiscoveredCount ==
  (sync_run.status = "final" /\ sync_run.reason = None) =>
     sync_run.discovered = yielded

\* A second run finalized without a failure reason that counts 2 for one
\* URL returned twice and already imported, while a source whose marking
\* raised left a SeenRecord that is not counted.
DiscoveredCountWitness ==
  /\ sync_run.status = "final"
  /\ sync_run.reason = None
  /\ sync_run.discovered = 2
  /\ yielded = 2
  /\ Len(unique_urls) = 1
  /\ unique_urls[1] \in imported_at_start
  /\ Len(seen_log) > yielded

\* C37: a sync run calls the import client for at most max(c, 0) URLs, c
\* being the configured cap; for a cap of zero or below it calls it for none.
NonPositiveCap == Len(calls) <= Max(max_recipes_per_run, 0)

====
